---- MODULE Spec2Model ----
\* The pool-based device-memory sub-allocator of pkg/vk/memory.go:
\* MemoryAllocator (allocation table, pool list, totalAllocated) in front of
\* MemoryPool (free / used block lists), with the memory-type resolution it
\* performs against the physical device's memory properties; and the Retry
\* helper of the error-handling code.
EXTENDS Integers, Sequences, FiniteSets, TLC

\* ---------------------------------------------------------------- bounds
\* vulkan.DeviceSize is an unsigned 64-bit integer; the model keeps the
\* wrap-around arithmetic at a width of DeviceSizeBits bits.
DeviceSizeBits == 6
\* the pool granularity is 2^16 bytes in the source; 2^BlockBits here.
BlockBits == 1
\* the large-allocation threshold is 1024 blocks in the source.
ThresholdBlocks == 2
\* NewMemoryAllocator sets maxAllocations to 4096; the model scales it down.
ScaledMaxAllocations == 2
\* number of MemoryAllocation objects the callers ever obtain.
MaxHandles == 3

\* threads calling into the allocator concurrently
NumThreads == 2
ThreadHandles == 2

\* allocation objects handed out in the runs that reuse freed spans
ReuseHandles == 4

\* allocation objects handed out in the runs that call a pool directly
PoolHandles == 4

\* the largest `attempts` passed to Retry
MaxAttempts == 3

RECURSIVE Pow2(_)
Pow2(n) == IF n = 0 THEN 1 ELSE 2 * Pow2(n - 1)

Modulus == Pow2(DeviceSizeBits)
Mask == Modulus - 1

\* ------------------------------------------------------- program constants
BlockSize == Pow2(BlockBits)
DirectThreshold == ThresholdBlocks * BlockSize
\* 256 MiB = 4 * 64 MiB
DefaultPoolSize == 4 * DirectThreshold
maxAllocations == ScaledMaxAllocations

MemoryPropertyDeviceLocalBit == 1
MemoryPropertyHostVisibleBit == 2
MemoryPropertyHostCoherentBit == 4
MemoryPropertyHostCachedBit == 8
MemoryPropertyLazilyAllocatedBit == 16

MemoryUsageUnknown == 0
MemoryUsageGPUOnly == 1
MemoryUsageCPUOnly == 2
MemoryUsageCPUToGPU == 3
MemoryUsageGPUToCPU == 4
MemoryUsageCPUCopy == 5
MemoryUsageGPULazilyAllocated == 6

\* error values returned by the operations
OK == "ok"
ErrTooManyAllocations == "maximum number of allocations reached"
ErrNoSuitableMemoryType == "no suitable memory type found"
ErrInsufficientSpace == "insufficient space in pool"
ErrNilAllocation == "cannot free nil allocation"
ErrNotFoundInAllocator == "allocation not found in allocator"
ErrNotFoundInPool == "allocation not found in pool"
ErrNotHostVisible == "memory type does not support host mapping"

\* the run-time panic of a write to a nil map
PanicNilMap == "panic: assignment to entry in nil map"

\* the nil *MemoryAllocation / nil *MemoryPool
Nil == 0

\* the placeholder pointer Map hands out: unsafe.Pointer(uintptr(1))
MappedPlaceholder == 1

\* ------------------------------------------------------- bit arithmetic
RECURSIVE BitAnd(_, _)
BitAnd(a, b) ==
    IF a = 0 \/ b = 0 THEN 0
    ELSE (a % 2) * (b % 2) + 2 * BitAnd(a \div 2, b \div 2)

RECURSIVE BitOr(_, _)
BitOr(a, b) ==
    IF a = 0 THEN b
    ELSE IF b = 0 THEN a
    ELSE (IF a % 2 = 1 \/ b % 2 = 1 THEN 1 ELSE 0) + 2 * BitOr(a \div 2, b \div 2)

\* Go's a &^ b on DeviceSize
AndNot(a, b) == BitAnd(a, Mask - b)

\* faulty variant: the request is not rounded
AlignedSize_NoMask(size, blockSize) == size

\* alignedSize := (size + mp.BlockSize - 1) &^ (mp.BlockSize - 1)
AlignedSize(size, blockSize) ==
    AndNot((size + blockSize + Modulus - 1) % Modulus, (blockSize + Modulus - 1) % Modulus)

\* ------------------------------------------------------- the device
\* PhysicalDevice.memProps: the memory types the device reports.
MemoryTypes ==
    <<MemoryPropertyDeviceLocalBit,
      MemoryPropertyHostVisibleBit + MemoryPropertyHostCoherentBit,
      MemoryPropertyHostVisibleBit + MemoryPropertyHostCoherentBit + MemoryPropertyHostCachedBit,
      MemoryPropertyHostVisibleBit,
      MemoryPropertyDeviceLocalBit + MemoryPropertyLazilyAllocatedBit,
      MemoryPropertyDeviceLocalBit + MemoryPropertyHostVisibleBit>>
MemoryTypeCount == Len(MemoryTypes)

\* PropertyFlags of memory type i (zero-based, as in the source)
TypeFlags(i) == MemoryTypes[i + 1]

\* ------------------------------------------------------- state
VARIABLES
    allocObjs,       \* the MemoryAllocation objects handed out; a pointer is an index
    poolObjs,        \* the MemoryPool objects created; a pointer is an index
    allocations,     \* ma.allocations: the keys (pointers) of the table
    pools,           \* ma.pools: pool pointers in append order
    totalAllocated,  \* ma.totalAllocated
    offsetOf,        \* history: the offset of the used block carved for each allocation
    freeCalled,      \* history: allocations Allocator.Free has been called on
    last,            \* history: the last call, its arguments and its result
    allocationsNil,  \* ma.allocations is the nil map (after Destroy)
    mutex,           \* ma.mutex: the thread holding the write lock, the threads reading
    poolLocks,       \* the pool mutexes held: pairs <<pool, thread>>
    threads,         \* each thread's call in progress: position and locals
    retry            \* the call of Retry in progress: its arguments, locals and result

threadVars == <<mutex, poolLocks, threads>>

vars ==
    <<allocObjs, poolObjs, allocations, pools, totalAllocated, offsetOf, freeCalled, last, retry,
      allocationsNil, mutex, poolLocks, threads, retry>>

\* the threads calling into the allocator
Threads == 1..NumThreads

AllocIds == 1..Len(allocObjs)
PoolIds == 1..Len(poolObjs)

\* ------------------------------------------------------- MemoryPool
MemoryBlock(offset, size, inUse) == [Offset |-> offset, Size |-> size, InUse |-> inUse]

\* faulty variant: the property flags of the type are not copied
CreatePool_NoFlags(typeIndex, size) ==
    [Memory |-> size, Size |-> size, TypeIndex |-> typeIndex,
     Properties |-> 0, BlockSize |-> BlockSize,
     FreeBlocks |-> <<MemoryBlock(0, size, FALSE)>>, UsedBlocks |-> <<>>]

\* faulty variant: the arena has no free block
CreatePool_Empty(typeIndex, size) ==
    [Memory |-> size, Size |-> size, TypeIndex |-> typeIndex,
     Properties |-> TypeFlags(typeIndex), BlockSize |-> BlockSize,
     FreeBlocks |-> <<>>, UsedBlocks |-> <<>>]

\* faulty variant: the arena is half the size asked for
CreatePool_Half(typeIndex, size) ==
    [Memory |-> size \div 2, Size |-> size \div 2, TypeIndex |-> typeIndex,
     Properties |-> TypeFlags(typeIndex), BlockSize |-> BlockSize,
     FreeBlocks |-> <<MemoryBlock(0, size \div 2, FALSE)>>, UsedBlocks |-> <<>>]

\* createPool: one free block spanning the arena, no used block
CreatePool(typeIndex, size) ==
    [Memory |-> size, Size |-> size, TypeIndex |-> typeIndex,
     Properties |-> TypeFlags(typeIndex), BlockSize |-> BlockSize,
     FreeBlocks |-> <<MemoryBlock(0, size, FALSE)>>, UsedBlocks |-> <<>>]

\* faulty variant: a block of exactly the aligned size does not fit
FirstFit_Strict(freeBlocks, alignedSize) ==
    LET fits == {i \in 1..Len(freeBlocks) : freeBlocks[i].Size > alignedSize}
    IN IF fits = {} THEN 0 ELSE CHOOSE i \in fits : \A j \in fits : i <= j

\* faulty variant: the scan keeps the last block that fits
FirstFit_Last(freeBlocks, alignedSize) ==
    LET fits == {i \in 1..Len(freeBlocks) : freeBlocks[i].Size >= alignedSize}
    IN IF fits = {} THEN 0 ELSE CHOOSE i \in fits : \A j \in fits : i >= j

\* index of the first free block with block.Size >= alignedSize, 0 when none
FirstFit(freeBlocks, alignedSize) ==
    LET fits == {i \in 1..Len(freeBlocks) : freeBlocks[i].Size >= alignedSize}
    IN IF fits = {} THEN 0 ELSE CHOOSE i \in fits : \A j \in fits : i <= j

\* faulty variant: the last block is dropped without being moved into slot i
SwapRemove_DropLast(blocks, i) == SubSeq(blocks, 1, Len(blocks) - 1)

\* mp.FreeBlocks[i] = mp.FreeBlocks[len-1] when i is not last; then drop the last
SwapRemove(blocks, i) ==
    LET moved == IF i < Len(blocks) THEN [blocks EXCEPT ![i] = blocks[Len(blocks)]] ELSE blocks
    IN SubSeq(moved, 1, Len(moved) - 1)

\* MemoryPool.Allocate: the pool after the call, the error, and the allocation
PoolAllocate(p, mp, size) ==
    LET alignedSize == AlignedSize(size, mp.BlockSize)
        i == FirstFit(mp.FreeBlocks, alignedSize)
    IN IF i = 0
       THEN [err |-> ErrInsufficientSpace, pool |-> mp, alloc |-> Nil, offset |-> -1]
       ELSE LET block == mp.FreeBlocks[i]
                split == IF block.Size > alignedSize
                         THEN Append(mp.FreeBlocks,
                                     MemoryBlock((block.Offset + alignedSize) % Modulus,
                                                 block.Size - alignedSize, FALSE))
                         ELSE mp.FreeBlocks
                used == Append(mp.UsedBlocks, MemoryBlock(block.Offset, alignedSize, TRUE))
            IN [err |-> OK,
                pool |-> [mp EXCEPT !.FreeBlocks = SwapRemove(split, i), !.UsedBlocks = used],
                alloc |-> [Memory |-> mp.Memory, Size |-> alignedSize,
                           TypeIndex |-> mp.TypeIndex, Properties |-> mp.Properties,
                           Mapped |-> Nil, RefCount |-> 1, Pool |-> p],
                offset |-> block.Offset]

\* the used block MemoryPool.Free picks: the first one with block.Offset == 0
FreeMatch(usedBlocks, allocation) ==
    LET hits == {i \in 1..Len(usedBlocks) : usedBlocks[i].Offset = 0}
    IN IF hits = {} THEN 0 ELSE CHOOSE i \in hits : \A j \in hits : i <= j

RemoveAt(blocks, i) == SubSeq(blocks, 1, i - 1) \o SubSeq(blocks, i + 1, Len(blocks))

\* MemoryPool.Free: the pool after the call and the error
PoolFree(mp, allocation) ==
    LET i == FreeMatch(mp.UsedBlocks, allocation)
    IN IF i = 0
       THEN [err |-> ErrNotFoundInPool, pool |-> mp]
       ELSE LET freedBlock == mp.UsedBlocks[i]
            IN [err |-> OK,
                pool |-> [mp EXCEPT
                    !.UsedBlocks = RemoveAt(mp.UsedBlocks, i),
                    !.FreeBlocks = Append(mp.FreeBlocks,
                                          MemoryBlock(freedBlock.Offset, freedBlock.Size, FALSE))]]

\* usedSize += block.Size over mp.UsedBlocks, in DeviceSize arithmetic
RECURSIVE UsedSize(_)
UsedSize(usedBlocks) ==
    IF usedBlocks = <<>> THEN 0
    ELSE (Head(usedBlocks).Size + UsedSize(Tail(usedBlocks))) % Modulus

\* MemoryPool.GetStats
PoolStats(mp) ==
    [TotalSize |-> mp.Size,
     UsedSize |-> UsedSize(mp.UsedBlocks),
     FreeSize |-> (mp.Size - UsedSize(mp.UsedBlocks) + Modulus) % Modulus,
     BlockCount |-> Len(mp.UsedBlocks) + Len(mp.FreeBlocks),
     TypeIndex |-> mp.TypeIndex,
     Properties |-> mp.Properties]

\* faulty variant: the block lists are kept
PoolDestroy_Skip(mp) == mp

\* MemoryPool.Destroy: mp.FreeBlocks = nil, mp.UsedBlocks = nil
PoolDestroy(mp) == [mp EXCEPT !.FreeBlocks = <<>>, !.UsedBlocks = <<>>]

\* ------------------------------------------------------- MemoryAllocator
\* faulty variant: CPUOnly forgets the host-coherent bit
UsageRequired_NoCoherent(usage) ==
    CASE usage = MemoryUsageGPUOnly -> MemoryPropertyDeviceLocalBit
      [] usage = MemoryUsageCPUOnly -> MemoryPropertyHostVisibleBit
      [] usage = MemoryUsageCPUToGPU -> MemoryPropertyHostVisibleBit
      [] usage = MemoryUsageGPUToCPU -> MemoryPropertyHostVisibleBit
      [] usage = MemoryUsageCPUCopy -> MemoryPropertyHostVisibleBit + MemoryPropertyHostCoherentBit
      [] usage = MemoryUsageGPULazilyAllocated -> MemoryPropertyDeviceLocalBit
      [] OTHER -> 0

\* findMemoryType: the flags the usage adds to the required flags
UsageRequired(usage) ==
    CASE usage = MemoryUsageGPUOnly -> MemoryPropertyDeviceLocalBit
      [] usage = MemoryUsageCPUOnly -> MemoryPropertyHostVisibleBit + MemoryPropertyHostCoherentBit
      [] usage = MemoryUsageCPUToGPU -> MemoryPropertyHostVisibleBit
      [] usage = MemoryUsageGPUToCPU -> MemoryPropertyHostVisibleBit
      [] usage = MemoryUsageCPUCopy -> MemoryPropertyHostVisibleBit + MemoryPropertyHostCoherentBit
      [] usage = MemoryUsageGPULazilyAllocated -> MemoryPropertyDeviceLocalBit
      [] OTHER -> 0

\* findMemoryType: the flags the usage adds to the preferred flags
UsagePreferred(usage) ==
    CASE usage = MemoryUsageCPUToGPU -> MemoryPropertyDeviceLocalBit
      [] usage = MemoryUsageGPUToCPU -> MemoryPropertyHostCachedBit
      [] usage = MemoryUsageGPULazilyAllocated -> MemoryPropertyLazilyAllocatedBit
      [] OTHER -> 0

\* faulty variant: the scan keeps the last match
Lowest_Highest(S) == CHOOSE i \in S : \A j \in S : i >= j

\* the first index an ascending scan meets
Lowest(S) == CHOOSE i \in S : \A j \in S : i <= j

\* faulty variant: no second pass
FindMemoryType_NoFallback(typeBits, usage, requiredIn, preferredIn) ==
    LET requiredFlags == BitOr(requiredIn, UsageRequired(usage))
        preferredFlags == BitOr(preferredIn, UsagePreferred(usage))
        allowed == {i \in 0..(MemoryTypeCount - 1) : BitAnd(typeBits, Pow2(i)) # 0}
        pass1 == {i \in allowed :
                     /\ BitAnd(TypeFlags(i), requiredFlags) = requiredFlags
                     /\ BitAnd(TypeFlags(i), preferredFlags) = preferredFlags}
    IN IF pass1 # {} THEN [err |-> OK, index |-> Lowest(pass1)]
       ELSE [err |-> ErrNoSuitableMemoryType, index |-> 0]

\* findMemoryType: first pass with required and preferred flags, second pass
\* with the required flags alone
FindMemoryType(typeBits, usage, requiredIn, preferredIn) ==
    LET requiredFlags == BitOr(requiredIn, UsageRequired(usage))
        preferredFlags == BitOr(preferredIn, UsagePreferred(usage))
        allowed == {i \in 0..(MemoryTypeCount - 1) : BitAnd(typeBits, Pow2(i)) # 0}
        pass1 == {i \in allowed :
                     /\ BitAnd(TypeFlags(i), requiredFlags) = requiredFlags
                     /\ BitAnd(TypeFlags(i), preferredFlags) = preferredFlags}
        pass2 == {i \in allowed : BitAnd(TypeFlags(i), requiredFlags) = requiredFlags}
    IN IF pass1 # {} THEN [err |-> OK, index |-> Lowest(pass1)]
       ELSE IF pass2 # {} THEN [err |-> OK, index |-> Lowest(pass2)]
       ELSE [err |-> ErrNoSuitableMemoryType, index |-> 0]

\* allocateDirect: an allocation of exactly the requested size, no pool
AllocateDirect(size, typeIndex) ==
    [Memory |-> size, Size |-> size, TypeIndex |-> typeIndex,
     Properties |-> TypeFlags(typeIndex), Mapped |-> Nil, RefCount |-> 1, Pool |-> Nil]

\* faulty variant: the cap test is off by one
CapReached_OffByOne(count) == count > maxAllocations

\* uint32(len(ma.allocations)) >= ma.maxAllocations
CapReached(count) == count >= maxAllocations

\* faulty variant: the threshold is twice too high
IsLarge_Doubled(size) == size > 2 * DirectThreshold

\* requirements.Size > 64*1024*1024
IsLarge(size) == size > DirectThreshold

\* faulty variant: the last pool that can serve is taken
FirstServingPool_Last(memoryType, size) ==
    LET serving == {k \in 1..Len(pools) :
                       /\ poolObjs[pools[k]].TypeIndex = memoryType
                       /\ PoolAllocate(pools[k], poolObjs[pools[k]], size).err = OK}
    IN IF serving = {} THEN 0 ELSE CHOOSE k \in serving : \A j \in serving : k >= j

\* position in ma.pools of the first pool with pool.TypeIndex == memoryType
\* whose Allocate succeeds, 0 when there is none
FirstServingPool(memoryType, size) ==
    LET serving == {k \in 1..Len(pools) :
                       /\ poolObjs[pools[k]].TypeIndex = memoryType
                       /\ PoolAllocate(pools[k], poolObjs[pools[k]], size).err = OK}
    IN IF serving = {} THEN 0 ELSE Lowest(serving)

NoAlloc(err, path, tix) ==
    [err |-> err, path |-> path, pool |-> Nil, tix |-> tix, alloc |-> Nil, offset |-> -1,
     poolObjs |-> poolObjs, pools |-> pools]

Carved(r, p, path, tix, objs, list) ==
    [err |-> OK, path |-> path, pool |-> p, tix |-> tix, alloc |-> r.alloc, offset |-> r.offset,
     poolObjs |-> objs, pools |-> list]

\* MemoryAllocator.Allocate after the cap check and the explicit pool: type
\* resolution, the existing pools, the direct path, the new pool
AllocateRouted(size, typeBits, usage, requiredIn, preferredIn) ==
    LET mt == FindMemoryType(typeBits, usage, requiredIn, preferredIn)
    IN IF mt.err # OK THEN NoAlloc(mt.err, "none", -1)
       ELSE LET k == FirstServingPool(mt.index, size)
            IN IF k # 0
               THEN LET p == pools[k]
                        r == PoolAllocate(p, poolObjs[p], size)
                    IN Carved(r, p, "existing", mt.index, [poolObjs EXCEPT ![p] = r.pool], pools)
               ELSE IF IsLarge(size)
               THEN [err |-> OK, path |-> "direct", pool |-> Nil, tix |-> mt.index,
                     alloc |-> AllocateDirect(size, mt.index), offset |-> -1,
                     poolObjs |-> poolObjs, pools |-> pools]
               ELSE LET p == Len(poolObjs) + 1
                        r == PoolAllocate(p, CreatePool(mt.index, DefaultPoolSize), size)
                    IN IF r.err # OK
                       THEN [NoAlloc(r.err, "newpool", mt.index) EXCEPT
                                !.poolObjs = Append(poolObjs, r.pool),
                                !.pools = Append(pools, p)]
                       ELSE Carved(r, p, "newpool", mt.index,
                                   Append(poolObjs, r.pool), Append(pools, p))

\* faulty variant: the error of the explicit pool is returned
AllocateOutcome_ExplicitHard(size, typeBits, usage, requiredIn, preferredIn, explicitPool) ==
    IF CapReached(Cardinality(allocations))
    THEN NoAlloc(ErrTooManyAllocations, "none", -1)
    ELSE IF explicitPool # Nil
    THEN LET r == PoolAllocate(explicitPool, poolObjs[explicitPool], size)
         IN IF r.err = OK
            THEN Carved(r, explicitPool, "explicit", -1,
                        [poolObjs EXCEPT ![explicitPool] = r.pool], pools)
            ELSE NoAlloc(r.err, "explicit", -1)
    ELSE AllocateRouted(size, typeBits, usage, requiredIn, preferredIn)

\* MemoryAllocator.Allocate: what the call returns and the pools after it
AllocateOutcome(size, typeBits, usage, requiredIn, preferredIn, explicitPool) ==
    IF CapReached(Cardinality(allocations))
    THEN NoAlloc(ErrTooManyAllocations, "none", -1)
    ELSE LET r == IF explicitPool # Nil
                  THEN PoolAllocate(explicitPool, poolObjs[explicitPool], size)
                  ELSE [err |-> ErrInsufficientSpace]
         IN IF explicitPool # Nil /\ r.err = OK
            THEN Carved(r, explicitPool, "explicit", -1,
                        [poolObjs EXCEPT ![explicitPool] = r.pool], pools)
            ELSE AllocateRouted(size, typeBits, usage, requiredIn, preferredIn)

\* ma.totalAllocated += alloc.Size
AddTotal(total, size) == (total + size) % Modulus

\* faulty variant: Free forgets to subtract
SubTotal_Skip(total, size) == total

\* ma.totalAllocated -= allocation.Size
SubTotal(total, size) == (total - size + Modulus) % Modulus

\* faulty variant: the table lookup is skipped
InTable_Always(table, a) == TRUE

\* ma.allocations[key] exists
InTable(table, a) == a \in table

\* allocation.Mapped != nil
IsMapped(allocation) == allocation.Mapped # Nil

\* faulty variant: the pointer is kept
Unmap_Keep(objs, a) == objs

\* Unmap: allocation.Mapped = nil when it is not nil
Unmap(objs, a) == IF IsMapped(objs[a]) THEN [objs EXCEPT ![a].Mapped = Nil] ELSE objs

\* faulty variant: every memory type passes for host-visible
HostVisible_Always(typeIndex) == TRUE

\* memProps.MemoryTypes[allocation.TypeIndex].PropertyFlags has the host-visible bit
HostVisible(typeIndex) == BitAnd(TypeFlags(typeIndex), MemoryPropertyHostVisibleBit) # 0

\* faulty variant: the early return of a mapped allocation hands back nil
MapOutcome_NilWhenMapped(a) ==
    IF IsMapped(allocObjs[a])
    THEN [err |-> OK, ptr |-> Nil, allocObjs |-> allocObjs]
    ELSE IF ~HostVisible(allocObjs[a].TypeIndex)
    THEN [err |-> ErrNotHostVisible, ptr |-> Nil, allocObjs |-> allocObjs]
    ELSE [err |-> OK, ptr |-> MappedPlaceholder,
          allocObjs |-> [allocObjs EXCEPT ![a].Mapped = MappedPlaceholder]]

\* ma.Map: the pointer and error returned and the allocation objects after it
MapOutcome(a) ==
    IF IsMapped(allocObjs[a])
    THEN [err |-> OK, ptr |-> allocObjs[a].Mapped, allocObjs |-> allocObjs]
    ELSE IF ~HostVisible(allocObjs[a].TypeIndex)
    THEN [err |-> ErrNotHostVisible, ptr |-> Nil, allocObjs |-> allocObjs]
    ELSE [err |-> OK, ptr |-> MappedPlaceholder,
          allocObjs |-> [allocObjs EXCEPT ![a].Mapped = MappedPlaceholder]]

\* freeAllocationUnsafe on the allocator state st: the error returned and the
\* allocator after the call
FreeIn(st, a) ==
    LET same == [err |-> OK, path |-> "none", pool |-> Nil, allocObjs |-> st.allocObjs,
                 allocations |-> st.allocations, total |-> st.total, poolObjs |-> st.poolObjs]
    IN IF a = Nil THEN [same EXCEPT !.err = ErrNilAllocation]
       ELSE LET unmapped == Unmap(st.allocObjs, a)
            IN IF ~InTable(st.allocations, a)
               THEN [same EXCEPT !.err = ErrNotFoundInAllocator, !.allocObjs = unmapped]
               ELSE LET removed == [same EXCEPT
                                       !.allocObjs = unmapped,
                                       !.allocations = st.allocations \ {a},
                                       !.total = SubTotal(st.total, st.allocObjs[a].Size)]
                        p == st.allocObjs[a].Pool
                    IN IF p # Nil
                       THEN LET r == PoolFree(st.poolObjs[p], a)
                            IN [removed EXCEPT !.err = r.err, !.path = "pool", !.pool = p,
                                               !.poolObjs = [st.poolObjs EXCEPT ![p] = r.pool]]
                       ELSE [removed EXCEPT !.path = "direct"]

\* freeAllocationUnsafe on the current state
FreeOutcome(a) ==
    FreeIn([allocObjs |-> allocObjs, allocations |-> allocations, total |-> totalAllocated,
            poolObjs |-> poolObjs], a)

\* the orders in which `for _, alloc := range ma.allocations` can visit the table
Orders(table) ==
    {order \in [1..Cardinality(table) -> table] :
        \A i, j \in 1..Cardinality(table) : order[i] = order[j] => i = j}

\* Destroy, first loop: freeAllocationUnsafe on every entry, results ignored
RECURSIVE FreeEach(_, _)
FreeEach(order, st) ==
    IF order = <<>> THEN st
    ELSE LET r == FreeIn(st, Head(order))
         IN FreeEach(Tail(order),
                     [allocObjs |-> r.allocObjs, allocations |-> r.allocations,
                      total |-> r.total, poolObjs |-> r.poolObjs])

\* Destroy, second loop: pool.Destroy() on every pool of ma.pools
RECURSIVE DestroyEach(_, _)
DestroyEach(list, objs) ==
    IF list = <<>> THEN objs
    ELSE DestroyEach(Tail(list), [objs EXCEPT ![Head(list)] = PoolDestroy(objs[Head(list)])])

\* faulty variant: the pool list is kept
ClearPools_Keep(list) == list

\* ma.pools = nil
ClearPools(list) == <<>>

\* MemoryAllocator.Destroy: the allocator after the call
DestroyOutcome(order) ==
    LET freed == FreeEach(order, [allocObjs |-> allocObjs, allocations |-> allocations,
                                  total |-> totalAllocated, poolObjs |-> poolObjs])
    IN [allocObjs |-> freed.allocObjs,
        total |-> freed.total,
        poolObjs |-> DestroyEach(pools, freed.poolObjs),
        pools |-> ClearPools(pools)]

\* MemoryAllocator.GetStats
AllocatorStats ==
    [TotalAllocated |-> totalAllocated,
     AllocationCount |-> Cardinality(allocations),
     PoolCount |-> Len(pools),
     MaxAllocations |-> maxAllocations,
     PoolStats |-> [k \in 1..Len(pools) |-> PoolStats(poolObjs[pools[k]])]]

\* a pool as createPool leaves it: one free block spanning the arena
Pristine(mp) ==
    /\ mp.UsedBlocks = <<>>
    /\ mp.FreeBlocks = <<MemoryBlock(0, mp.Size, FALSE)>>

\* the record of a call: op, the allocation passed or returned (id), the
\* requested size, the error, the route taken, the pool involved, the explicit
\* pool, the resolved type index, the type-resolution inputs when recorded
\* (request), the pointer returned by Map (ptr), whether the allocation was
\* mapped before the call (wasMapped), facts about the preceding call, and the
\* number of free blocks in front of the one a pooled Allocate was carved from,
\* the allocations Destroy passed to freeAllocationUnsafe (released) and the
\* pools it or Pool.Destroy destroyed, and what the GetStats calls returned
NoRequest == [recorded |-> FALSE, typeBits |-> 0, usage |-> 0, required |-> 0, preferred |-> 0]

NoPoolStats ==
    [TotalSize |-> 0, UsedSize |-> 0, FreeSize |-> 0, BlockCount |-> 0, TypeIndex |-> 0,
     Properties |-> 0]
NoStats ==
    [TotalAllocated |-> 0, AllocationCount |-> 0, PoolCount |-> 0, MaxAllocations |-> 0,
     PoolStats |-> <<>>]

NoCall ==
    [op |-> "Init", id |-> Nil, size |-> 0, err |-> OK, path |-> "none", pool |-> Nil,
     epool |-> Nil, tix |-> -1, pristine |-> FALSE, roundTrip |-> FALSE, again |-> FALSE,
     request |-> NoRequest, ptr |-> Nil, wasMapped |-> FALSE, remap |-> FALSE,
     skipped |-> 0, released |-> {}, destroyed |-> {}, poolStats |-> NoPoolStats,
     stats |-> NoStats]

\* ------------------------------------------------------- operations
\* a thread with no call in progress: its position (pc), the call and its
\* arguments, the locals of the call (resolved type tix, loop index k into
\* ma.pools and loop variable p, whether p was just created, the value read for
\* += and -=, the statistics gathered so far), and the allocations it obtained
\* and has not passed to Free since (own)
\* what a Pool.Allocate call has computed from the lists it read and has not
\* yet stored: the lists after the carve, the allocation and its offset
NoCarve == [pool |-> CreatePool(0, 0), alloc |-> AllocateDirect(0, 0), offset |-> -1]

IdleThread ==
    [pc |-> "idle", op |-> "none", a |-> Nil, size |-> 0, typeBits |-> 0, usage |-> 0,
     tix |-> 0, k |-> 0, p |-> Nil, fresh |-> FALSE, read |-> 0, err |-> OK, stats |-> NoStats,
     own |-> {}, carve |-> NoCarve]

\* the arguments, locals and result of Retry before it is called: `calls` is
\* the history of what fn returned, `ret` the value Retry returned
NoRetry ==
    [pc |-> "idle", attempts |-> 0, i |-> 0, lastErr |-> "nil", calls |-> <<>>,
     ret |-> [kind |-> "none", attempts |-> 0, err |-> "nil"]]

\* the allocator after NewMemoryAllocator, no thread inside it
InitAllocator ==
    /\ allocObjs = <<>>
    /\ poolObjs = <<>>
    /\ allocations = {}
    /\ pools = <<>>
    /\ totalAllocated = 0
    /\ offsetOf = <<>>
    /\ freeCalled = {}
    /\ last = NoCall
    /\ allocationsNil = FALSE
    /\ mutex = [writer |-> Nil, readers |-> {}]
    /\ poolLocks = {}
    /\ threads = [t \in Threads |-> IdleThread]

Init == InitAllocator /\ retry = NoRetry

\* the end of ma.Allocate once the pools gave the outcome `out`: every
\* successful path ends in ma.allocations[key] = alloc, which panics when the
\* map is nil; `request` is what the history keeps of the type-resolution inputs
AllocateApply(out, size, explicitPool, request) ==
    /\ LET id == Len(allocObjs) + 1
           panics == out.err = OK /\ allocationsNil
           registered == out.err = OK /\ ~panics
       IN /\ poolObjs' = out.poolObjs
          /\ pools' = out.pools
          /\ IF registered
             THEN /\ allocObjs' = Append(allocObjs, out.alloc)
                  /\ allocations' = allocations \cup {id}
                  /\ totalAllocated' = AddTotal(totalAllocated, out.alloc.Size)
                  /\ offsetOf' = Append(offsetOf, out.offset)
             ELSE UNCHANGED <<allocObjs, allocations, totalAllocated, offsetOf>>
          /\ last' = [NoCall EXCEPT
                 !.op = "Allocate", !.id = IF registered THEN id ELSE Nil,
                 !.size = size, !.err = IF panics THEN PanicNilMap ELSE out.err,
                 !.path = out.path, !.pool = out.pool,
                 !.epool = explicitPool, !.tix = out.tix, !.request = request,
                 !.pristine = /\ registered
                              /\ out.pool # Nil
                              /\ (out.path = "newpool" \/ Pristine(poolObjs[out.pool])),
                 !.skipped = IF registered /\ out.pool \in PoolIds
                             THEN Cardinality({i \in 1..Len(poolObjs[out.pool].FreeBlocks) :
                                      \A j \in 1..i :
                                          poolObjs[out.pool].FreeBlocks[j].Offset # out.offset})
                             ELSE 0]
    /\ UNCHANGED <<freeCalled, allocationsNil, threadVars, retry>>

\* ma.Allocate(requirements, createInfo) with the history of the call
AllocateCall(size, typeBits, usage, requiredIn, preferredIn, explicitPool, request) ==
    AllocateApply(AllocateOutcome(size, typeBits, usage, requiredIn, preferredIn, explicitPool),
                  size, explicitPool, request)

\* ma.Allocate(requirements, createInfo), while callers hold fewer than
\* MaxHandles allocation objects
Allocate(size, typeBits, usage, requiredIn, preferredIn, explicitPool) ==
    /\ Len(allocObjs) < MaxHandles
    /\ AllocateCall(size, typeBits, usage, requiredIn, preferredIn, explicitPool, NoRequest)

\* ma.Free(allocation)
Free(a) ==
    /\ LET out == FreeOutcome(a)
       IN /\ allocObjs' = out.allocObjs
          /\ allocations' = out.allocations
          /\ totalAllocated' = out.total
          /\ poolObjs' = out.poolObjs
          /\ last' = [NoCall EXCEPT
                 !.op = "Free", !.id = a, !.err = out.err, !.path = out.path, !.pool = out.pool,
                 !.roundTrip = /\ last.op = "Allocate"
                               /\ last.id = a
                               /\ a # Nil
                               /\ last.pristine,
                 !.again = a \in freeCalled,
                 !.wasMapped = a # Nil /\ IsMapped(allocObjs[a])]
    /\ freeCalled' = IF a = Nil THEN freeCalled ELSE freeCalled \cup {a}
    /\ UNCHANGED <<pools, offsetOf, allocationsNil, threadVars, retry>>

\* request sizes: one that is rounded up to the threshold, the threshold, just
\* above it, and the largest DeviceSize
RequestSizes == {DirectThreshold - 1, DirectThreshold, DirectThreshold + 1, Mask}

\* requirements.MemoryTypeBits and createInfo.Usage of the requests: one that
\* resolves to type 0, one that resolves to type 2 in the first pass, and one
\* that no type satisfies
TypeRequests ==
    {<<1, MemoryUsageGPUOnly>>, <<6, MemoryUsageGPUToCPU>>, <<1, MemoryUsageCPUOnly>>}

\* createInfo.Pool, when given, is a pool of this allocator (callers obtain
\* pool pointers from the Pool field of earlier allocations).
Next ==
    \/ \E size \in RequestSizes, tr \in TypeRequests, explicitPool \in {Nil} \cup PoolIds :
           Allocate(size, tr[1], tr[2], 0, 0, explicitPool)
    \/ \E a \in {Nil} \cup AllocIds : Free(a)

Spec == Init /\ [][Next]_vars

\* ------------------------------------------------------- zero-size requests
\* requirements.Size of zero beside an ordinary pooled size
ZeroSizes == {0, DirectThreshold}

NextZero ==
    \/ \E size \in ZeroSizes, tr \in TypeRequests, explicitPool \in {Nil} \cup PoolIds :
           Allocate(size, tr[1], tr[2], 0, 0, explicitPool)
    \/ \E a \in {Nil} \cup AllocIds : Free(a)

SpecZero == Init /\ [][NextZero]_vars

\* ------------------------------------------------------- reuse of freed blocks
\* longer runs on one pool: a pooled size and a size that a pool serves once
\* it exists, all of the device-local type
ReuseSizes == {DirectThreshold, DirectThreshold + 1}
ReuseRequests == {<<1, MemoryUsageGPUOnly>>}

\* ma.Allocate, while callers hold fewer than ReuseHandles allocation objects
AllocateReuse(size, typeBits, usage) ==
    /\ Len(allocObjs) < ReuseHandles
    /\ AllocateCall(size, typeBits, usage, 0, 0, Nil, NoRequest)

NextReuse ==
    \/ \E size \in ReuseSizes, tr \in ReuseRequests : AllocateReuse(size, tr[1], tr[2])
    \/ \E a \in AllocIds : Free(a)

SpecReuse == Init /\ [][NextReuse]_vars

\* ------------------------------------------------------- mapping
\* ma.Map(allocation), with an allocation object a caller holds
Map(a) ==
    /\ LET out == MapOutcome(a)
       IN /\ allocObjs' = out.allocObjs
          /\ last' = [NoCall EXCEPT
                 !.op = "Map", !.id = a, !.err = out.err, !.ptr = out.ptr,
                 !.wasMapped = IsMapped(allocObjs[a]),
                 !.again = last.op = "Map" /\ last.id = a /\ last.wasMapped,
                 !.remap = last.op = "Unmap" /\ last.id = a /\ last.wasMapped]
    /\ UNCHANGED <<poolObjs, allocations, pools, totalAllocated, offsetOf, freeCalled,
                   allocationsNil, threadVars, retry>>

\* ma.Unmap(allocation), with an allocation object a caller holds
UnmapCall(a) ==
    /\ allocObjs' = Unmap(allocObjs, a)
    /\ last' = [NoCall EXCEPT !.op = "Unmap", !.id = a, !.wasMapped = IsMapped(allocObjs[a])]
    /\ UNCHANGED <<poolObjs, allocations, pools, totalAllocated, offsetOf, freeCalled,
                   allocationsNil, threadVars, retry>>

\* requests of the mapping runs: a pooled and a direct size, a device-local
\* type and a host-visible one
MapSizes == {DirectThreshold, DirectThreshold + 1}
MapTypeRequests == {<<1, MemoryUsageGPUOnly>>, <<6, MemoryUsageGPUToCPU>>}

NextMap ==
    \/ \E size \in MapSizes, tr \in MapTypeRequests : Allocate(size, tr[1], tr[2], 0, 0, Nil)
    \/ \E a \in AllocIds : Free(a)
    \/ \E a \in AllocIds : Map(a)
    \/ \E a \in AllocIds : UnmapCall(a)

SpecMap == Init /\ [][NextMap]_vars

\* ------------------------------------------------------- teardown and statistics
\* ma.Destroy(), its first loop visiting the table in `order`
Destroy(order) ==
    /\ LET out == DestroyOutcome(order)
       IN /\ allocObjs' = out.allocObjs
          /\ totalAllocated' = out.total
          /\ poolObjs' = out.poolObjs
          /\ pools' = out.pools
    /\ allocations' = {}
    /\ allocationsNil' = TRUE
    /\ last' = [NoCall EXCEPT
           !.op = "Destroy",
           !.released = {order[i] : i \in 1..Len(order)},
           !.destroyed = {pools[k] : k \in 1..Len(pools)},
           !.again = last.op = "Destroy"]
    /\ UNCHANGED <<offsetOf, freeCalled, threadVars, retry>>

\* pool.Destroy(), called on a pool a caller reached through allocation.Pool
PoolDestroyCall(p) ==
    /\ poolObjs' = [poolObjs EXCEPT ![p] = PoolDestroy(poolObjs[p])]
    /\ last' = [NoCall EXCEPT
           !.op = "PoolDestroy", !.pool = p, !.destroyed = {p},
           !.again = last.op = "PoolDestroy" /\ last.pool = p]
    /\ UNCHANGED <<allocObjs, allocations, pools, totalAllocated, offsetOf, freeCalled,
                   allocationsNil, threadVars, retry>>

\* ma.GetStats()
GetStats ==
    /\ last' = [NoCall EXCEPT !.op = "GetStats", !.stats = AllocatorStats]
    /\ UNCHANGED <<allocObjs, poolObjs, allocations, pools, totalAllocated, offsetOf,
                   freeCalled, allocationsNil, threadVars, retry>>

\* pool.GetStats(), called on a pool a caller reached through allocation.Pool
PoolGetStats(p) ==
    /\ last' = [NoCall EXCEPT
           !.op = "PoolGetStats", !.pool = p, !.poolStats = PoolStats(poolObjs[p])]
    /\ UNCHANGED <<allocObjs, poolObjs, allocations, pools, totalAllocated, offsetOf,
                   freeCalled, allocationsNil, threadVars, retry>>

\* requests of these runs (size, type bits, usage): a pooled device-local
\* one and a direct host-visible one
LifeRequests ==
    {<<DirectThreshold, 1, MemoryUsageGPUOnly>>,
     <<DirectThreshold + 1, 6, MemoryUsageGPUToCPU>>}

\* a panic ends the process: nothing is called after it
Running == last.err # PanicNilMap

NextLife ==
    \/ Running /\ \E rq \in LifeRequests : Allocate(rq[1], rq[2], rq[3], 0, 0, Nil)
    \/ Running /\ \E a \in AllocIds : Free(a)
    \/ Running /\ \E a \in AllocIds : Map(a)
    \/ Running /\ \E a \in AllocIds : UnmapCall(a)
    \/ Running /\ GetStats
    \/ Running /\ \E order \in Orders(allocations) : Destroy(order)
    \/ Running /\ \E p \in PoolIds : PoolGetStats(p)
    \/ Running /\ \E p \in PoolIds : PoolDestroyCall(p)

SpecLife == Init /\ [][NextLife]_vars

\* ------------------------------------------------------- direct pool calls
\* pool.Allocate(size), called on a pool a caller reached through
\* allocation.Pool: the allocation it returns is not entered in the table
PoolAllocateApply(r, p, size) ==
    /\ poolObjs' = [poolObjs EXCEPT ![p] = r.pool]
    /\ IF r.err = OK
       THEN /\ allocObjs' = Append(allocObjs, r.alloc)
            /\ offsetOf' = Append(offsetOf, r.offset)
       ELSE UNCHANGED <<allocObjs, offsetOf>>
    /\ last' = [NoCall EXCEPT
           !.op = "PoolAllocate", !.pool = p, !.size = size, !.err = r.err,
           !.id = IF r.err = OK THEN Len(allocObjs) + 1 ELSE Nil]
    /\ UNCHANGED <<allocations, pools, totalAllocated, freeCalled, allocationsNil, threadVars, retry>>

PoolAllocateCall(p, size) ==
    /\ Len(allocObjs) < PoolHandles
    /\ PoolAllocateApply(PoolAllocate(p, poolObjs[p], size), p, size)

\* ma.Allocate, while callers hold fewer than PoolHandles allocation objects
AllocatePooled(size, typeBits, usage, explicitPool) ==
    /\ Len(allocObjs) < PoolHandles
    /\ AllocateCall(size, typeBits, usage, 0, 0, explicitPool, NoRequest)

\* sizes passed to the pool: a threshold-sized request and what is left of
\* an arena after one
PoolSizes == {DirectThreshold, DefaultPoolSize - DirectThreshold}

\* what the allocator is asked for in these runs: a pooled and a direct size,
\* of the device-local type or of a host-visible type, with or without a pool
\* named in createInfo
HintSizes == {DirectThreshold, DirectThreshold + 1}
HintRequests == {<<1, MemoryUsageGPUOnly>>, <<6, MemoryUsageGPUToCPU>>}

NextPool ==
    \/ \E size \in HintSizes, tr \in HintRequests, explicitPool \in {Nil} \cup PoolIds :
           AllocatePooled(size, tr[1], tr[2], explicitPool)
    \/ \E a \in AllocIds : Free(a)
    \/ \E p \in PoolIds, size \in PoolSizes : PoolAllocateCall(p, size)

SpecPool == Init /\ [][NextPool]_vars

\* ------------------------------------------------------- concurrent callers
\* sync.RWMutex: Lock waits for the writer and all readers to leave
CanLock_Always == TRUE
CanLock == mutex.writer = Nil /\ mutex.readers = {}

\* sync.RWMutex: RLock waits for the writer to leave
CanRLock_Always == TRUE
CanRLock == mutex.writer = Nil

\* sync.Mutex of pool p: Lock waits for the holder to leave
CanLockPool_Always(p) == TRUE
CanLockPool(p) == \A held \in poolLocks : held[1] # p

\* mp.mutex.Unlock() on return from a pool method
ReleasePool_Keep(held, p, t) == held
ReleasePool(held, p, t) == held \ {<<p, t>>}

\* an unrecovered panic ends the process: no thread runs after it
NoPanic == \A t \in Threads : threads[t].pc # "panicked"

At(t, pc) == NoPanic /\ threads[t].pc = pc

\* the locals of a call are dropped when it returns
Returned(th) == [IdleThread EXCEPT !.own = th.own]

\* the next position at or after `from` in ma.pools of a pool with
\* pool.TypeIndex == memoryType, 0 when there is none
NextOfType(memoryType, from) ==
    LET hits == {k \in from..Len(pools) : poolObjs[pools[k]].TypeIndex = memoryType}
    IN IF hits = {} THEN 0 ELSE Lowest(hits)

\* the loop variable of `for _, pool := range ma.pools` at position k
PoolAt(k) == IF k \in 1..Len(pools) THEN pools[k] ELSE Nil

\* ma.mutex.Lock() on entry to Allocate, Free and Destroy: the caller waits
\* for the lock and goes on as th
Lock(t, th) ==
    /\ At(t, "idle")
    /\ CanLock
    /\ mutex' = [mutex EXCEPT !.writer = t]
    /\ threads' = [threads EXCEPT ![t] = th]
    /\ UNCHANGED <<allocObjs, poolObjs, allocations, pools, totalAllocated, offsetOf,
                   freeCalled, last, retry, allocationsNil, poolLocks>>

\* a thread calls ma.Allocate
CallAllocate(t, size, typeBits, usage) ==
    /\ Len(allocObjs) < ThreadHandles
    /\ Lock(t, [threads[t] EXCEPT !.pc = "A_find", !.op = "Allocate", !.size = size,
                                  !.typeBits = typeBits, !.usage = usage])

\* a thread calls ma.Free on an allocation it obtained
CallFree(t, a) ==
    /\ a \in threads[t].own
    /\ Lock(t, [threads[t] EXCEPT !.pc = "F_find", !.op = "Free", !.a = a])

\* a thread calls ma.Destroy
CallDestroy(t) == Lock(t, [threads[t] EXCEPT !.pc = "D_free", !.op = "Destroy"])

\* the deferred ma.mutex.Unlock() and the return of Allocate, Free and Destroy
Unlock(t) ==
    /\ At(t, "W_unlock")
    /\ mutex' = [mutex EXCEPT !.writer = Nil]
    /\ LET th == threads[t]
           own == IF th.op = "Allocate" /\ th.err = OK THEN th.own \cup {th.a}
                  ELSE IF th.op = "Free" THEN th.own \ {th.a}
                  ELSE th.own
       IN threads' = [threads EXCEPT ![t] = Returned([th EXCEPT !.own = own])]
    /\ UNCHANGED <<allocObjs, poolObjs, allocations, pools, totalAllocated, offsetOf,
                   freeCalled, last, retry, allocationsNil, poolLocks>>

\* mp.mutex.Lock() on entry to a method of pool p
LockPool(t, pc, p, next) ==
    /\ At(t, pc)
    /\ CanLockPool(p)
    /\ poolLocks' = poolLocks \cup {<<p, t>>}
    /\ threads' = [threads EXCEPT ![t].pc = next]
    /\ UNCHANGED <<allocObjs, poolObjs, allocations, pools, totalAllocated, offsetOf,
                   freeCalled, last, retry, allocationsNil, mutex>>

\* Allocate under the lock: the cap check, findMemoryType, and the search for
\* the first pool of the resolved type
AllocateFind(t) ==
    /\ At(t, "A_find")
    /\ LET th == threads[t]
           mt == FindMemoryType(th.typeBits, th.usage, 0, 0)
           k == NextOfType(mt.index, 1)
       IN threads' = [threads EXCEPT ![t] =
              IF CapReached(Cardinality(allocations))
              THEN [th EXCEPT !.pc = "W_unlock", !.err = ErrTooManyAllocations]
              ELSE IF mt.err # OK
              THEN [th EXCEPT !.pc = "W_unlock", !.err = mt.err]
              ELSE [th EXCEPT !.pc = IF k # 0 THEN "A_pool" ELSE "A_new",
                              !.tix = mt.index, !.k = k, !.p = PoolAt(k)]]
    /\ UNCHANGED <<allocObjs, poolObjs, allocations, pools, totalAllocated, offsetOf,
                   freeCalled, last, retry, allocationsNil, mutex, poolLocks>>

\* pool.Allocate(requirements.Size, requirements.Alignment) enters the pool
AllocateLockPool(t) == LockPool(t, "A_pool", threads[t].p, "A_carve")

\* pool.Allocate carves and leaves the pool; on failure the loop moves to the
\* next pool of the type, and a pool just created returns its error
AllocateCarve(t) ==
    /\ At(t, "A_carve")
    /\ LET th == threads[t]
           p == th.p
           r == PoolAllocate(p, poolObjs[p], th.size)
           k == NextOfType(th.tix, th.k + 1)
       IN /\ poolLocks' = ReleasePool(poolLocks, p, t)
          /\ IF r.err = OK
             THEN /\ poolObjs' = [poolObjs EXCEPT ![p] = r.pool]
                  /\ allocObjs' = Append(allocObjs, r.alloc)
                  /\ offsetOf' = Append(offsetOf, r.offset)
                  /\ threads' = [threads EXCEPT ![t] =
                         [th EXCEPT !.pc = "A_reg", !.a = Len(allocObjs) + 1]]
             ELSE /\ UNCHANGED <<poolObjs, allocObjs, offsetOf>>
                  /\ threads' = [threads EXCEPT ![t] =
                         IF th.fresh
                         THEN [th EXCEPT !.pc = "W_unlock", !.err = r.err]
                         ELSE [th EXCEPT !.pc = IF k # 0 THEN "A_pool" ELSE "A_new",
                                         !.k = k, !.p = PoolAt(k)]]
    /\ UNCHANGED <<allocations, pools, totalAllocated, freeCalled, last, retry, allocationsNil,
                   mutex>>

\* no pool served: allocateDirect above the threshold, else createPool and
\* append(ma.pools, pool)
AllocateNew(t) ==
    /\ At(t, "A_new")
    /\ LET th == threads[t]
       IN IF IsLarge(th.size)
          THEN /\ allocObjs' = Append(allocObjs, AllocateDirect(th.size, th.tix))
               /\ offsetOf' = Append(offsetOf, -1)
               /\ threads' = [threads EXCEPT ![t] =
                      [th EXCEPT !.pc = "A_reg", !.a = Len(allocObjs) + 1]]
               /\ UNCHANGED <<poolObjs, pools>>
          ELSE /\ poolObjs' = Append(poolObjs, CreatePool(th.tix, DefaultPoolSize))
               /\ pools' = Append(pools, Len(poolObjs) + 1)
               /\ threads' = [threads EXCEPT ![t] =
                      [th EXCEPT !.pc = "A_pool", !.k = Len(pools) + 1,
                                 !.p = Len(poolObjs) + 1, !.fresh = TRUE]]
               /\ UNCHANGED <<allocObjs, offsetOf>>
    /\ UNCHANGED <<allocations, totalAllocated, freeCalled, last, retry, allocationsNil, mutex,
                   poolLocks>>

\* ma.allocations[key] = alloc; the write to a nil map panics, and the
\* deferred Unlock runs while the panic unwinds
AllocateRegister(t) ==
    /\ At(t, "A_reg")
    /\ IF allocationsNil
       THEN /\ threads' = [threads EXCEPT ![t].pc = "panicked", ![t].err = PanicNilMap]
            /\ mutex' = [mutex EXCEPT !.writer = Nil]
            /\ UNCHANGED allocations
       ELSE /\ threads' = [threads EXCEPT ![t].pc = "A_read"]
            /\ allocations' = allocations \cup {threads[t].a}
            /\ UNCHANGED mutex
    /\ UNCHANGED <<allocObjs, poolObjs, pools, totalAllocated, offsetOf, freeCalled, last, retry,
                   allocationsNil, poolLocks>>

\* ma.totalAllocated += alloc.Size and -= allocation.Size: the load
ReadTotal(t, pc, next) ==
    /\ At(t, pc)
    /\ threads' = [threads EXCEPT ![t].pc = next, ![t].read = totalAllocated]
    /\ UNCHANGED <<allocObjs, poolObjs, allocations, pools, totalAllocated, offsetOf,
                   freeCalled, last, retry, allocationsNil, mutex, poolLocks>>

\* ma.totalAllocated += alloc.Size: the store
AllocateWrite(t) ==
    /\ At(t, "A_write")
    /\ totalAllocated' = AddTotal(threads[t].read, allocObjs[threads[t].a].Size)
    /\ threads' = [threads EXCEPT ![t].pc = "W_unlock"]
    /\ UNCHANGED <<allocObjs, poolObjs, allocations, pools, offsetOf, freeCalled, last, retry,
                   allocationsNil, mutex, poolLocks>>

\* freeAllocationUnsafe of Free: the unmap, the table lookup and the delete
FreeFind(t) ==
    /\ At(t, "F_find")
    /\ LET a == threads[t].a
       IN /\ allocObjs' = Unmap(allocObjs, a)
          /\ IF ~InTable(allocations, a)
             THEN /\ threads' = [threads EXCEPT ![t].pc = "W_unlock",
                                                ![t].err = ErrNotFoundInAllocator]
                  /\ UNCHANGED allocations
             ELSE /\ threads' = [threads EXCEPT ![t].pc = "F_read"]
                  /\ allocations' = allocations \ {a}
    /\ UNCHANGED <<poolObjs, pools, totalAllocated, offsetOf, freeCalled, last, retry,
                   allocationsNil, mutex, poolLocks>>

\* ma.totalAllocated -= allocation.Size: the store, then the pool or the
\* direct branch
FreeWrite(t) ==
    /\ At(t, "F_write")
    /\ LET a == threads[t].a
       IN /\ totalAllocated' = SubTotal(threads[t].read, allocObjs[a].Size)
          /\ threads' = [threads EXCEPT ![t].pc =
                 IF allocObjs[a].Pool # Nil THEN "F_pool" ELSE "W_unlock"]
    /\ UNCHANGED <<allocObjs, poolObjs, allocations, pools, offsetOf, freeCalled, last, retry,
                   allocationsNil, mutex, poolLocks>>

\* allocation.Pool.Free(allocation) enters the pool
FreeLockPool(t) == LockPool(t, "F_pool", allocObjs[threads[t].a].Pool, "F_release")

\* allocation.Pool.Free(allocation) moves the block and leaves the pool
ReleaseBlock(t, pc, next) ==
    /\ At(t, pc)
    /\ LET a == threads[t].a
           p == allocObjs[a].Pool
           r == PoolFree(poolObjs[p], a)
       IN /\ poolObjs' = [poolObjs EXCEPT ![p] = r.pool]
          /\ poolLocks' = ReleasePool(poolLocks, p, t)
          /\ threads' = [threads EXCEPT ![t].pc = next,
                                        ![t].err = IF next = "W_unlock" THEN r.err ELSE OK]
    /\ UNCHANGED <<allocObjs, allocations, pools, totalAllocated, offsetOf, freeCalled, last, retry,
                   allocationsNil, mutex>>

\* a thread calls ma.GetStats: ma.mutex.RLock()
CallGetStats(t) ==
    /\ At(t, "idle")
    /\ CanRLock
    /\ mutex' = [mutex EXCEPT !.readers = @ \cup {t}]
    /\ threads' = [threads EXCEPT ![t].pc = "G_total", ![t].op = "GetStats"]
    /\ UNCHANGED <<allocObjs, poolObjs, allocations, pools, totalAllocated, offsetOf,
                   freeCalled, last, retry, allocationsNil, poolLocks>>

\* the fields of the MemoryStats literal, read one after the other
StatsField(t, pc, next, stats) ==
    /\ At(t, pc)
    /\ threads' = [threads EXCEPT ![t].pc = next, ![t].stats = stats, ![t].k = 1,
                                  ![t].p = PoolAt(1)]
    /\ UNCHANGED <<allocObjs, poolObjs, allocations, pools, totalAllocated, offsetOf,
                   freeCalled, last, retry, allocationsNil, mutex, poolLocks>>

StatsTotal(t) ==
    StatsField(t, "G_total", "G_count",
               [threads[t].stats EXCEPT !.TotalAllocated = totalAllocated,
                                        !.MaxAllocations = maxAllocations])
StatsCount(t) ==
    StatsField(t, "G_count", "G_pools",
               [threads[t].stats EXCEPT !.AllocationCount = Cardinality(allocations)])
StatsPoolCount(t) ==
    StatsField(t, "G_pools", IF pools # <<>> THEN "G_pool" ELSE "G_done",
               [threads[t].stats EXCEPT !.PoolCount = Len(pools)])

\* pool.GetStats() enters the pool
StatsLockPool(t) == LockPool(t, "G_pool", threads[t].p, "G_stat")

\* pool.GetStats() reads the pool and leaves it; the loop moves on
StatsPool(t) ==
    /\ At(t, "G_stat")
    /\ LET th == threads[t]
           p == th.p
       IN /\ poolLocks' = ReleasePool(poolLocks, p, t)
          /\ threads' = [threads EXCEPT ![t] =
                 [th EXCEPT !.pc = IF th.k < Len(pools) THEN "G_pool" ELSE "G_done",
                            !.k = th.k + 1, !.p = PoolAt(th.k + 1),
                            !.stats.PoolStats = Append(@, PoolStats(poolObjs[p]))]]
    /\ UNCHANGED <<allocObjs, poolObjs, allocations, pools, totalAllocated, offsetOf,
                   freeCalled, last, retry, allocationsNil, mutex>>

\* the deferred ma.mutex.RUnlock() and the return of GetStats
RUnlock(t) ==
    /\ At(t, "G_done")
    /\ mutex' = [mutex EXCEPT !.readers = @ \ {t}]
    /\ threads' = [threads EXCEPT ![t] = Returned(@)]
    /\ UNCHANGED <<allocObjs, poolObjs, allocations, pools, totalAllocated, offsetOf,
                   freeCalled, last, retry, allocationsNil, poolLocks>>

\* Destroy, first loop: freeAllocationUnsafe on an entry of the table up to
\* the pool branch
DestroyFree(t, a) ==
    /\ At(t, "D_free")
    /\ a \in allocations
    /\ allocObjs' = Unmap(allocObjs, a)
    /\ allocations' = allocations \ {a}
    /\ totalAllocated' = SubTotal(totalAllocated, allocObjs[a].Size)
    /\ threads' = [threads EXCEPT ![t].a = a,
                                  ![t].pc = IF allocObjs[a].Pool # Nil THEN "D_pool"
                                            ELSE "D_free"]
    /\ UNCHANGED <<poolObjs, pools, offsetOf, freeCalled, last, retry, allocationsNil, mutex,
                   poolLocks>>

DestroyLockPool(t) == LockPool(t, "D_pool", allocObjs[threads[t].a].Pool, "D_release")

\* Destroy: ma.allocations = nil once the first loop is over
DestroyTable(t) ==
    /\ At(t, "D_free")
    /\ allocations = {}
    /\ allocationsNil' = TRUE
    /\ threads' = [threads EXCEPT ![t].k = 1, ![t].p = PoolAt(1),
                                  ![t].pc = IF pools # <<>> THEN "D_pools" ELSE "D_clear"]
    /\ UNCHANGED <<allocObjs, poolObjs, allocations, pools, totalAllocated, offsetOf,
                   freeCalled, last, retry, mutex, poolLocks>>

\* Destroy, second loop: pool.Destroy() enters the pool
DestroyLockPools(t) == LockPool(t, "D_pools", threads[t].p, "D_destroy")

\* pool.Destroy() drops the block lists and leaves the pool
DestroyPool(t) ==
    /\ At(t, "D_destroy")
    /\ LET th == threads[t]
           p == th.p
       IN /\ poolObjs' = [poolObjs EXCEPT ![p] = PoolDestroy(@)]
          /\ poolLocks' = ReleasePool(poolLocks, p, t)
          /\ threads' = [threads EXCEPT ![t].k = th.k + 1, ![t].p = PoolAt(th.k + 1),
                                        ![t].pc = IF th.k < Len(pools) THEN "D_pools"
                                                  ELSE "D_clear"]
    /\ UNCHANGED <<allocObjs, allocations, pools, totalAllocated, offsetOf, freeCalled, last, retry,
                   allocationsNil, mutex>>

\* Destroy: ma.pools = nil
DestroyClear(t) ==
    /\ At(t, "D_clear")
    /\ pools' = ClearPools(pools)
    /\ threads' = [threads EXCEPT ![t].pc = "W_unlock"]
    /\ UNCHANGED <<allocObjs, poolObjs, allocations, totalAllocated, offsetOf, freeCalled,
                   last, retry, allocationsNil, mutex, poolLocks>>

\* what the threads ask for: a direct allocation and two pooled ones of
\* different memory types
ThreadRequests ==
    {<<DirectThreshold, 1, MemoryUsageGPUOnly>>,
     <<DirectThreshold, 6, MemoryUsageGPUToCPU>>,
     <<DirectThreshold + 1, 1, MemoryUsageGPUOnly>>}

\* the steps of thread t
ThreadStep(t) ==
    \/ \E r \in ThreadRequests : CallAllocate(t, r[1], r[2], r[3])
    \/ \E a \in AllocIds : CallFree(t, a)
    \/ CallGetStats(t)
    \/ CallDestroy(t)
    \/ AllocateFind(t)
    \/ AllocateLockPool(t)
    \/ AllocateCarve(t)
    \/ AllocateNew(t)
    \/ AllocateRegister(t)
    \/ ReadTotal(t, "A_read", "A_write")
    \/ AllocateWrite(t)
    \/ FreeFind(t)
    \/ ReadTotal(t, "F_read", "F_write")
    \/ FreeWrite(t)
    \/ FreeLockPool(t)
    \/ ReleaseBlock(t, "F_release", "W_unlock")
    \/ StatsTotal(t)
    \/ StatsCount(t)
    \/ StatsPoolCount(t)
    \/ StatsLockPool(t)
    \/ StatsPool(t)
    \/ RUnlock(t)
    \/ \E a \in AllocIds : DestroyFree(t, a)
    \/ DestroyLockPool(t)
    \/ ReleaseBlock(t, "D_release", "D_free")
    \/ DestroyTable(t)
    \/ DestroyLockPools(t)
    \/ DestroyPool(t)
    \/ DestroyClear(t)
    \/ Unlock(t)

NextThreads == \E t \in Threads : ThreadStep(t)

SpecThreads == Init /\ [][NextThreads]_vars

\* the Go scheduler runs every runnable goroutine, and a sync.Mutex in
\* starvation mode hands the lock to the longest waiter
SpecThreadsFair == SpecThreads /\ \A t \in Threads : SF_vars(ThreadStep(t))

\* ------------------------------------------- concurrent calls on one pool
\* a thread calls pool.Allocate on a pool of the allocator: mp.mutex.Lock()
CallPoolAllocate(t, p, size) ==
    /\ At(t, "idle")
    /\ Len(allocObjs) < ThreadHandles
    /\ CanLockPool(p)
    /\ poolLocks' = poolLocks \cup {<<p, t>>}
    /\ threads' = [threads EXCEPT ![t] =
           [threads[t] EXCEPT !.pc = "P_scan", !.op = "PoolAllocate", !.p = p, !.size = size]]
    /\ UNCHANGED <<allocObjs, poolObjs, allocations, pools, totalAllocated, offsetOf,
                   freeCalled, last, retry, allocationsNil, mutex>>

\* the loop over mp.FreeBlocks reads the lists and finds the block to carve;
\* when no block fits the call unlocks and returns the error
PoolScan(t) ==
    /\ At(t, "P_scan")
    /\ LET th == threads[t]
           r == PoolAllocate(th.p, poolObjs[th.p], th.size)
       IN IF r.err = OK
          THEN /\ threads' = [threads EXCEPT ![t] =
                      [th EXCEPT !.pc = "P_store",
                                 !.carve = [pool |-> r.pool, alloc |-> r.alloc,
                                            offset |-> r.offset]]]
               /\ UNCHANGED poolLocks
          ELSE /\ threads' = [threads EXCEPT ![t] = Returned(th)]
               /\ poolLocks' = ReleasePool(poolLocks, th.p, t)
    /\ UNCHANGED <<allocObjs, poolObjs, allocations, pools, totalAllocated, offsetOf,
                   freeCalled, last, retry, allocationsNil, mutex>>

\* the stores to mp.FreeBlocks and mp.UsedBlocks, the deferred
\* mp.mutex.Unlock() and the return of the allocation
PoolStore(t) ==
    /\ At(t, "P_store")
    /\ LET th == threads[t]
       IN /\ poolObjs' = [poolObjs EXCEPT ![th.p] = th.carve.pool]
          /\ allocObjs' = Append(allocObjs, th.carve.alloc)
          /\ offsetOf' = Append(offsetOf, th.carve.offset)
          /\ poolLocks' = ReleasePool(poolLocks, th.p, t)
          /\ threads' = [threads EXCEPT ![t] =
                 Returned([th EXCEPT !.own = th.own \cup {Len(allocObjs) + 1}])]
    /\ UNCHANGED <<allocations, pools, totalAllocated, freeCalled, last, retry, allocationsNil,
                   mutex>>

\* the sizes threads pass to pool.Allocate: one that fits a pool in use and
\* one that no pool in use can serve
ThreadPoolSizes == {DirectThreshold, DefaultPoolSize}

\* the steps of thread t when callers use ma.Allocate and pool.Allocate
PoolThreadStep(t) ==
    \/ \E r \in ThreadRequests : CallAllocate(t, r[1], r[2], r[3])
    \/ AllocateFind(t)
    \/ AllocateLockPool(t)
    \/ AllocateCarve(t)
    \/ AllocateNew(t)
    \/ AllocateRegister(t)
    \/ ReadTotal(t, "A_read", "A_write")
    \/ AllocateWrite(t)
    \/ Unlock(t)
    \/ \E p \in PoolIds, size \in ThreadPoolSizes : CallPoolAllocate(t, p, size)
    \/ PoolScan(t)
    \/ PoolStore(t)

NextPoolThreads == \E t \in Threads : PoolThreadStep(t)

SpecPoolThreads == Init /\ [][NextPoolThreads]_vars

\* ------------------------------------------------------------------ Retry
\* what a call of fn returns: nil, a *VulkanError with one of the results the
\* switch names or with another result, or an error of another type
Outcomes ==
    {"nil", "ERROR_DEVICE_LOST", "ERROR_OUT_OF_DEVICE_MEMORY", "ERROR_OUT_OF_HOST_MEMORY",
     "ERROR_UNKNOWN", "other"}

\* the values of the int parameter `attempts`
AttemptValues == (-1)..MaxAttempts

\* the type assertion and the switch: only a *VulkanError with Result
\* ERROR_DEVICE_LOST returns at once; the memory errors `continue`, every
\* other error falls out of the switch to the loop's post statement
StopsRetry_Never(err) == FALSE
StopsRetry(err) == err = "ERROR_DEVICE_LOST"

\* return nil, return err, and fmt.Errorf("operation failed after %d
\* attempts: %w", attempts, lastErr)
ReturnNil == [kind |-> "nil", attempts |-> 0, err |-> "nil"]
ReturnErr(err) == [kind |-> "same", attempts |-> 0, err |-> err]
ReturnWrapped(attempts, lastErr) == [kind |-> "wrapped", attempts |-> attempts, err |-> lastErr]

\* one iteration of the loop: i < attempts, fn is called and returns out
RetryAttempt(out) ==
    /\ retry.pc = "loop"
    /\ retry.i < retry.attempts
    /\ retry' =
          IF out = "nil"
          THEN [retry EXCEPT !.pc = "returned", !.calls = Append(@, out), !.ret = ReturnNil]
          ELSE IF StopsRetry(out)
          THEN [retry EXCEPT !.pc = "returned", !.calls = Append(@, out), !.lastErr = out,
                             !.ret = ReturnErr(out)]
          ELSE [retry EXCEPT !.calls = Append(@, out), !.lastErr = out, !.i = @ + 1]
    /\ UNCHANGED <<allocObjs, poolObjs, allocations, pools, totalAllocated, offsetOf,
                   freeCalled, last, allocationsNil, threadVars>>

\* the loop condition fails: the wrapping error is returned
RetryExhausted ==
    /\ retry.pc = "loop"
    /\ ~(retry.i < retry.attempts)
    /\ retry' = [retry EXCEPT !.pc = "returned",
                              !.ret = ReturnWrapped(retry.attempts, retry.lastErr)]
    /\ UNCHANGED <<allocObjs, poolObjs, allocations, pools, totalAllocated, offsetOf,
                   freeCalled, last, allocationsNil, threadVars>>

\* Retry is entered with any attempts; var lastErr error is nil, i := 0
InitRetry ==
    /\ InitAllocator
    /\ retry \in {[NoRetry EXCEPT !.pc = "loop", !.attempts = n] : n \in AttemptValues}

NextRetry ==
    \/ \E out \in Outcomes : RetryAttempt(out)
    \/ RetryExhausted

SpecRetry == InitRetry /\ [][NextRetry]_vars

\* ------------------------------------------------------- type resolution
\* requirements.MemoryTypeBits: every subset of the device's types
AllTypeBits == 0..(Pow2(MemoryTypeCount) - 1)

\* createInfo.Usage
AllUsages ==
    {MemoryUsageUnknown, MemoryUsageGPUOnly, MemoryUsageCPUOnly, MemoryUsageCPUToGPU,
     MemoryUsageGPUToCPU, MemoryUsageCPUCopy, MemoryUsageGPULazilyAllocated}

\* createInfo.RequiredFlags and createInfo.PreferredFlags
ExplicitRequired == {0, MemoryPropertyHostCachedBit}
ExplicitPreferred == {0, MemoryPropertyHostCoherentBit}

\* requirements.Size of these calls, and the type request of the calls that
\* fill the allocator first (device-local, type 0, no explicit flags)
TypeSizes == {DirectThreshold}
PlainRequests == {<<1, MemoryUsageGPUOnly, 0, 0>>}

\* ma.Allocate with any type request, the request kept in the history; a
\* behaviour is followed through plain requests up to the first other one
AllocateRecorded(size, typeBits, usage, requiredIn, preferredIn, explicitPool) ==
    /\ \/ last.op = "Init"
       \/ <<last.request.typeBits, last.request.usage,
             last.request.required, last.request.preferred>> \in PlainRequests
    /\ AllocateCall(size, typeBits, usage, requiredIn, preferredIn, explicitPool,
                    [recorded |-> TRUE, typeBits |-> typeBits, usage |-> usage,
                     required |-> requiredIn, preferred |-> preferredIn])

NextTypes ==
    \E size \in TypeSizes, typeBits \in AllTypeBits, usage \in AllUsages,
       requiredIn \in ExplicitRequired, preferredIn \in ExplicitPreferred,
       explicitPool \in {Nil} \cup PoolIds :
        AllocateRecorded(size, typeBits, usage, requiredIn, preferredIn, explicitPool)

SpecTypes == Init /\ [][NextTypes]_vars

\* the same calls with a pooled and a direct size, followed by Free, Map and
\* Unmap of what they returned
NextProps ==
    \/ \E size \in HintSizes, typeBits \in AllTypeBits, usage \in AllUsages,
          requiredIn \in ExplicitRequired, preferredIn \in ExplicitPreferred :
           AllocateRecorded(size, typeBits, usage, requiredIn, preferredIn, Nil)
    \/ \E a \in AllocIds : Free(a)
    \/ \E a \in AllocIds : Map(a)
    \/ \E a \in AllocIds : UnmapCall(a)

SpecProps == Init /\ [][NextProps]_vars

\* ------------------------------------------------------- properties
RECURSIVE SumSizes(_)
SumSizes(S) ==
    IF S = {} THEN 0
    ELSE LET a == CHOOSE x \in S : TRUE IN allocObjs[a].Size + SumSizes(S \ {a})

Count(blocks, offset, size) ==
    Cardinality({i \in 1..Len(blocks) : blocks[i].Offset = offset /\ blocks[i].Size = size})

Spans(blocks) == {<<blocks[i].Offset, blocks[i].Size>> : i \in 1..Len(blocks)}

\* blocks `after` are blocks `before` with `delta` more blocks <<offset, size>>
\* and every other span as often as before
MovedOne(before, after, offset, size, delta) ==
    \A sp \in Spans(before) \cup Spans(after) \cup {<<offset, size>>} :
        Count(after, sp[1], sp[2]) =
            Count(before, sp[1], sp[2]) + (IF sp = <<offset, size>> THEN delta ELSE 0)

\* C2: Pool.Free(a) moves the used block carved for a (the one at a's
\* offset), and no other block, from usedBlocks to freeBlocks.
C2_FreeReleasesOwnBlock ==
    [][(last'.op = "Free" /\ last'.path = "pool") =>
          LET a == last'.id
              p == last'.pool
          IN /\ Count(poolObjs[p].UsedBlocks, offsetOf[a], allocObjs[a].Size) > 0
             /\ MovedOne(poolObjs[p].UsedBlocks, poolObjs'[p].UsedBlocks,
                         offsetOf[a], allocObjs[a].Size, -1)
             /\ MovedOne(poolObjs[p].FreeBlocks, poolObjs'[p].FreeBlocks,
                         offsetOf[a], allocObjs[a].Size, 1)]_vars

LiveIn(p) == {a \in allocations : allocObjs[a].Pool = p}

\* C3: in every pool the used blocks correspond one-to-one to the live
\* allocations carved from it: same count, and each used block has the offset
\* and size of exactly one live allocation.
C3_UsedBlocksMatchLive ==
    \A p \in PoolIds :
        /\ Len(poolObjs[p].UsedBlocks) = Cardinality(LiveIn(p))
        /\ \A sp \in Spans(poolObjs[p].UsedBlocks)
                     \cup {<<offsetOf[a], allocObjs[a].Size>> : a \in LiveIn(p)} :
               Count(poolObjs[p].UsedBlocks, sp[1], sp[2]) =
                   Cardinality({a \in LiveIn(p) :
                                   offsetOf[a] = sp[1] /\ allocObjs[a].Size = sp[2]})

RECURSIVE SumBlocks(_)
SumBlocks(blocks) ==
    IF blocks = <<>> THEN 0 ELSE Head(blocks).Size + SumBlocks(Tail(blocks))

\* C4: Allocator.Free on a live allocation returns success, the allocation
\* leaves the table, and the used size of its owning pool decreases by the
\* allocation's size.
C4_FreeOfLiveSucceeds ==
    [][(last'.op = "Free" /\ last'.id \in allocations) =>
          LET a == last'.id
              p == allocObjs[a].Pool
          IN /\ last'.err = OK
             /\ a \notin allocations'
             /\ p # Nil =>
                    SumBlocks(poolObjs'[p].UsedBlocks) =
                        SumBlocks(poolObjs[p].UsedBlocks) - allocObjs[a].Size]_vars

\* C5: a second Allocator.Free on an allocation returns the not-found error
\* and changes neither the table nor totalAllocated; Free never succeeds twice.
C5_DoubleFreeDetected ==
    [][(last'.op = "Free" /\ last'.id \in freeCalled) =>
          /\ last'.err = ErrNotFoundInAllocator
          /\ allocations' = allocations
          /\ totalAllocated' = totalAllocated]_vars

\* a second Free was rejected while other allocations are live
C5_Witness ==
    /\ last.op = "Free"
    /\ last.again
    /\ last.err = ErrNotFoundInAllocator
    /\ allocations # {}

HasRoom(mp, size) ==
    \E i \in 1..Len(mp.FreeBlocks) : mp.FreeBlocks[i].Size >= AlignedSize(size, mp.BlockSize)

\* C6: the table never holds more than maxAllocations entries, and an
\* Allocate issued while it holds maxAllocations fails with the
\* too-many-allocations error and changes nothing, with or without an
\* explicit pool and whatever space is free.
C6_CapEnforced ==
    /\ [](Cardinality(allocations) <= maxAllocations)
    /\ [][(last'.op = "Allocate" /\ Cardinality(allocations) >= maxAllocations) =>
             /\ last'.err = ErrTooManyAllocations
             /\ UNCHANGED <<allocObjs, poolObjs, allocations, pools, totalAllocated>>]_vars

\* an Allocate naming an explicit pool that has room was refused at the cap
C6_Witness ==
    /\ last.op = "Allocate"
    /\ last.err = ErrTooManyAllocations
    /\ Cardinality(allocations) = maxAllocations
    /\ last.epool # Nil
    /\ HasRoom(poolObjs[last.epool], last.size)

AllBlocks(mp) == mp.FreeBlocks \o mp.UsedBlocks

Covers(block, x) == block.Offset <= x /\ x < block.Offset + block.Size

\* C7: in every pool the free and used blocks together partition
\* [0, poolSize): every byte is in exactly one block and no block reaches
\* beyond the arena.
C7_Partition ==
    \A p \in PoolIds :
        LET mp == poolObjs[p]
            blocks == AllBlocks(mp)
        IN /\ \A i \in 1..Len(blocks) : blocks[i].Offset + blocks[i].Size <= mp.Size
           /\ \A x \in 0..(mp.Size - 1) :
                  Cardinality({i \in 1..Len(blocks) : Covers(blocks[i], x)}) = 1

\* a pool with a used block and two free blocks, after a Free returned a block
C7_Witness ==
    /\ last.op = "Free"
    /\ last.path = "pool"
    /\ last.err = OK
    /\ Len(poolObjs[last.pool].UsedBlocks) >= 1
    /\ Len(poolObjs[last.pool].FreeBlocks) >= 2

\* C8: after every Pool.Free the free list of the pool holds no two free
\* blocks that are adjacent by offset.
C8_NoAdjacentFreeBlocks ==
    (last.op = "Free" /\ last.path = "pool" /\ last.err = OK) =>
        LET fb == poolObjs[last.pool].FreeBlocks
        IN \A i, j \in 1..Len(fb) :
               i # j => fb[i].Offset + fb[i].Size # fb[j].Offset

\* C9: in a pool with no other allocation, Allocate(n) followed immediately
\* by Free of the returned allocation leaves a single free block spanning
\* [0, poolSize) and no used block.
C9_RoundTrip ==
    (last.op = "Free" /\ last.roundTrip) => Pristine(poolObjs[last.pool])

C11_ZeroSizeRejected ==
    /\ (last.op = "Allocate" /\ last.size = 0) => (last.err # OK /\ last.id = Nil)
    /\ \A p \in PoolIds : \A k \in 1..Len(poolObjs[p].UsedBlocks) :
           poolObjs[p].UsedBlocks[k].Size # 0

\* C12: the size of a pooled allocation is the least multiple of the block
\* size that is at least the requested size n (1 <= n), never less than n.
C12_RoundsUp ==
    (last.op = "Allocate" /\ last.err = OK /\ last.size >= 1
        /\ allocObjs[last.id].Pool # Nil) =>
        LET got == allocObjs[last.id].Size
        IN /\ got % BlockSize = 0
           /\ got >= last.size
           /\ got < last.size + BlockSize

\* C13: the size of every used block, and of every allocation carved from a
\* pool, is a multiple of the pool's block granularity.
C13_BlockGranularity ==
    /\ \A p \in PoolIds : \A k \in 1..Len(poolObjs[p].UsedBlocks) :
           poolObjs[p].UsedBlocks[k].Size % poolObjs[p].BlockSize = 0
    /\ \A a \in AllocIds :
           allocObjs[a].Pool # Nil =>
               allocObjs[a].Size % poolObjs[allocObjs[a].Pool].BlockSize = 0

\* a request that is no multiple of the granularity was carved from a pool
C13_Witness ==
    /\ last.op = "Allocate"
    /\ last.err = OK
    /\ last.size % BlockSize # 0
    /\ allocObjs[last.id].Pool # Nil
    /\ allocObjs[last.id].Size > last.size
    /\ \E k \in 1..Len(poolObjs[last.pool].UsedBlocks) :
           poolObjs[last.pool].UsedBlocks[k].Size = allocObjs[last.id].Size

\* the types a recorded request allows, and those among them whose flags
\* include all of `flags`
AllowedTypes == {i \in 0..(MemoryTypeCount - 1) : (last.request.typeBits \div Pow2(i)) % 2 = 1}
TypesWith(flags) == {i \in AllowedTypes : BitAnd(TypeFlags(i), flags) = flags}

\* the call resolved a memory type: the cap and the explicit pool let it through
Resolving ==
    /\ last.op = "Allocate"
    /\ last.request.recorded
    /\ last.err # ErrTooManyAllocations
    /\ last.path # "explicit"

\* C14: among the types whose bit is set in MemoryTypeBits, Allocate resolves
\* the lowest index whose flags include all required and all preferred flags,
\* and only when there is none, the lowest index whose flags include all
\* required flags.
C14_TypeResolution ==
    Resolving =>
        LET required == BitOr(last.request.required, UsageRequired(last.request.usage))
            preferred == BitOr(last.request.preferred, UsagePreferred(last.request.usage))
            both == {i \in TypesWith(required) : BitAnd(TypeFlags(i), preferred) = preferred}
            picked == IF both # {} THEN both ELSE TypesWith(required)
        IN picked # {} =>
               /\ last.err = OK
               /\ last.tix \in picked
               /\ \A j \in picked : last.tix <= j

\* the preferred flags decided: a lower type had the required flags only
C14_Witness ==
    /\ Resolving
    /\ last.err = OK
    /\ LET required == BitOr(last.request.required, UsageRequired(last.request.usage))
           preferred == BitOr(last.request.preferred, UsagePreferred(last.request.usage))
       IN /\ BitAnd(TypeFlags(last.tix), preferred) = preferred
          /\ \E j \in TypesWith(required) : j < last.tix
          /\ \E j \in AllowedTypes : j > last.tix /\ BitAnd(TypeFlags(j), preferred) = preferred
                                                   /\ BitAnd(TypeFlags(j), required) = required

\* C15: when no explicit pool serves the request, Allocate fails with the
\* no-suitable-memory-type error exactly when no type whose bit is set in
\* MemoryTypeBits has all required flags.
C15_NoSuitableTypeExactly ==
    (last.op = "Allocate" /\ last.request.recorded /\ last.path # "explicit") =>
        LET required == BitOr(last.request.required, UsageRequired(last.request.usage))
        IN last.err = ErrNoSuitableMemoryType <=> TypesWith(required) = {}

\* C15 amended: when the allocation cap is not reached and no explicit pool
\* serves the request, Allocate fails with the no-suitable-memory-type error
\* exactly when no type whose bit is set in MemoryTypeBits has all required
\* flags; the preferred flags play no part.
C15_NoSuitableTypeBelowCap ==
    [][(/\ last'.op = "Allocate"
        /\ last'.request.recorded
        /\ last'.path # "explicit"
        /\ ~(Cardinality(allocations) >= maxAllocations)) =>
          LET required == BitOr(last'.request.required, UsageRequired(last'.request.usage))
              suitable == {i \in 0..(MemoryTypeCount - 1) :
                              /\ (last'.request.typeBits \div Pow2(i)) % 2 = 1
                              /\ BitAnd(TypeFlags(i), required) = required}
          IN last'.err = ErrNoSuitableMemoryType <=> suitable = {}]_vars

\* both sides occur: a request that leaves no suitable type although types
\* are allowed, and before it calls that succeeded
C15_Witness ==
    /\ last.op = "Allocate"
    /\ last.request.recorded
    /\ last.err = ErrNoSuitableMemoryType
    /\ AllowedTypes # {}
    /\ last.request.preferred # 0
    /\ allocations # {}

\* the usage table as the claim states it
TableRequired(usage) ==
    CASE usage = MemoryUsageGPUOnly -> {MemoryPropertyDeviceLocalBit}
      [] usage = MemoryUsageCPUOnly -> {MemoryPropertyHostVisibleBit, MemoryPropertyHostCoherentBit}
      [] usage = MemoryUsageCPUCopy -> {MemoryPropertyHostVisibleBit, MemoryPropertyHostCoherentBit}
      [] usage = MemoryUsageCPUToGPU -> {MemoryPropertyHostVisibleBit}
      [] usage = MemoryUsageGPUToCPU -> {MemoryPropertyHostVisibleBit}
      [] usage = MemoryUsageGPULazilyAllocated -> {MemoryPropertyDeviceLocalBit}
      [] usage = MemoryUsageUnknown -> {}

TablePreferred(usage) ==
    CASE usage = MemoryUsageCPUToGPU -> {MemoryPropertyDeviceLocalBit}
      [] usage = MemoryUsageGPUToCPU -> {MemoryPropertyHostCachedBit}
      [] usage = MemoryUsageGPULazilyAllocated -> {MemoryPropertyLazilyAllocatedBit}
      [] usage \in {MemoryUsageGPUOnly, MemoryUsageCPUOnly, MemoryUsageCPUCopy,
                    MemoryUsageUnknown} -> {}

\* the union of a flag word with a set of single bits
RECURSIVE WithBits(_, _)
WithBits(flags, bits) ==
    IF bits = {} THEN flags
    ELSE LET b == CHOOSE x \in bits : TRUE
         IN WithBits(BitOr(flags, b), bits \ {b})

\* C16: type resolution works on the explicit createInfo flags united with
\* exactly the usage table's bits: a request with a usage resolves as the
\* request of usage Unknown whose explicit flags already hold the table's
\* bits for that usage.
C16_UsageTable ==
    Resolving =>
        LET u == last.request.usage
            same == FindMemoryType(last.request.typeBits, MemoryUsageUnknown,
                                   WithBits(last.request.required, TableRequired(u)),
                                   WithBits(last.request.preferred, TablePreferred(u)))
        IN IF same.err = OK
           THEN last.err = OK /\ last.tix = same.index
           ELSE last.err = same.err

\* a usage and explicit flags together decided the type: a lower allowed
\* type has the explicit required flag but not the usage's
C16_Witness ==
    /\ Resolving
    /\ last.err = OK
    /\ last.request.usage = MemoryUsageGPUToCPU
    /\ last.request.required # 0
    /\ BitAnd(TypeFlags(last.tix), MemoryPropertyHostCachedBit) # 0
    /\ \E j \in AllowedTypes : j < last.tix

\* C17: Map on an unmapped allocation whose property flags lack the
\* host-visible bit fails with the not-host-visible error and leaves the
\* mapped pointer nil; Map on an issued, host-visible allocation succeeds and
\* returns a non-nil pointer that is cached on the allocation.
C17_MapGating ==
    [][(last'.op = "Map" /\ last'.id \in allocations) =>
          LET a == last'.id
              visible == BitAnd(allocObjs[a].Properties, MemoryPropertyHostVisibleBit) # 0
          IN /\ (~visible /\ allocObjs[a].Mapped = Nil) =>
                    /\ last'.err = ErrNotHostVisible
                    /\ last'.ptr = Nil
                    /\ allocObjs'[a].Mapped = Nil
             /\ visible =>
                    /\ last'.err = OK
                    /\ last'.ptr # Nil
                    /\ allocObjs'[a].Mapped = last'.ptr]_vars

\* both gates were passed: a live device-local allocation was just refused
\* while a live host-visible one is mapped
C17_Witness ==
    /\ last.op = "Map"
    /\ last.id \in allocations
    /\ last.err = ErrNotHostVisible
    /\ BitAnd(allocObjs[last.id].Properties, MemoryPropertyHostVisibleBit) = 0
    /\ \E b \in allocations :
           /\ BitAnd(allocObjs[b].Properties, MemoryPropertyHostVisibleBit) # 0
           /\ allocObjs[b].Mapped # Nil

\* C18: Map on an allocation that is not in the allocator's table (already
\* freed) is rejected with the allocation-not-found error and sets no mapped
\* pointer on it.
C18_MapOfFreedRejected ==
    (last.op = "Map" /\ last.id \notin allocations) =>
        /\ last.err = ErrNotFoundInAllocator
        /\ allocObjs[last.id].Mapped = Nil

\* C19: Map on an allocation that is already mapped succeeds, returns the
\* pointer cached by the earlier Map and changes no state.
C19_MapIdempotent ==
    [][(last'.op = "Map" /\ allocObjs[last'.id].Mapped # Nil) =>
          /\ last'.err = OK
          /\ last'.ptr = allocObjs[last'.id].Mapped
          /\ allocObjs' = allocObjs
          /\ UNCHANGED <<poolObjs, allocations, pools, totalAllocated>>]_vars

\* a third Map in a row on the same mapped allocation
C19_Witness ==
    /\ last.op = "Map"
    /\ last.wasMapped
    /\ last.again
    /\ last.err = OK
    /\ last.ptr = allocObjs[last.id].Mapped
    /\ last.ptr # Nil

\* C20: Unmap never fails: on an unmapped allocation it changes nothing, on a
\* mapped one it clears the mapped pointer and nothing else; a Map that
\* follows Map and Unmap of a host-visible allocation succeeds again with a
\* non-nil pointer.
C20_UnmapAndRemap ==
    [][/\ last'.op = "Unmap" =>
              /\ last'.err = OK
              /\ allocObjs'[last'.id].Mapped = Nil
              /\ \A b \in AllocIds :
                     (b # last'.id \/ allocObjs[b].Mapped = Nil) => allocObjs'[b] = allocObjs[b]
              /\ [allocObjs' EXCEPT ![last'.id].Mapped = allocObjs[last'.id].Mapped] = allocObjs
              /\ UNCHANGED <<poolObjs, allocations, pools, totalAllocated>>
       /\ (/\ last'.op = "Map"
           /\ last.op = "Unmap"
           /\ last.id = last'.id
           /\ last.wasMapped
           /\ BitAnd(allocObjs[last'.id].Properties, MemoryPropertyHostVisibleBit) # 0) =>
              /\ last'.err = OK
              /\ last'.ptr # Nil
              /\ allocObjs'[last'.id].Mapped = last'.ptr]_vars

\* Map, Unmap, Map of one allocation: the second Map succeeded
C20_Witness ==
    /\ last.op = "Map"
    /\ last.remap
    /\ ~last.wasMapped
    /\ last.err = OK
    /\ last.ptr # Nil
    /\ allocObjs[last.id].Mapped = last.ptr

\* C21: no call faults: every Allocate, Free, Map, Unmap, GetStats and
\* Destroy, in any order and also after Destroy, returns a value or an error
\* and never panics.
C21_NoPanic == last.err # PanicNilMap

\* a pool after Pool.Destroy: no block list left
Destroyed(mp) == mp.FreeBlocks = <<>> /\ mp.UsedBlocks = <<>>

\* C22: a Destroy of an allocator that was already destroyed, and a
\* Pool.Destroy of a pool that was already destroyed, leave the state exactly
\* as it was, and the second Allocator.Destroy releases no allocation and
\* destroys no pool again.
C22_DestroyIdempotent ==
    [][/\ (last'.op = "Destroy" /\ allocationsNil) =>
              /\ UNCHANGED <<allocObjs, poolObjs, allocations, pools, totalAllocated,
                             allocationsNil>>
              /\ last'.released = {}
              /\ last'.destroyed = {}
       /\ (last'.op = "PoolDestroy" /\ Destroyed(poolObjs[last'.pool])) =>
              UNCHANGED <<allocObjs, poolObjs, allocations, pools, totalAllocated,
                          allocationsNil>>]_vars

\* a second Destroy in a row, on an allocator that had handed out
\* allocations and created pools
C22_Witness ==
    /\ last.op = "Destroy"
    /\ last.again
    /\ last.released = {}
    /\ AllocIds # {}
    /\ PoolIds # {}
    /\ \A p \in PoolIds : Destroyed(poolObjs[p])

\* C23: whatever allocations and pools exist before Allocator.Destroy, it
\* frees every entry of the table, and after it the table is empty,
\* totalAllocated is 0, the pool list is empty and every pool that was in the
\* list is destroyed.
C23_DestroyFreesEverything ==
    [][last'.op = "Destroy" =>
          /\ last'.released = allocations
          /\ allocations' = {}
          /\ totalAllocated' = 0
          /\ pools' = <<>>
          /\ \A k \in 1..Len(pools) : Destroyed(poolObjs'[pools[k]])
          /\ \A a \in allocations : allocObjs'[a].Mapped = Nil]_vars

\* Destroy found a pooled and a direct allocation live and a pool in the list
C23_Witness ==
    /\ last.op = "Destroy"
    /\ last.destroyed # {}
    /\ \E a, b \in last.released : allocObjs[a].Pool # Nil /\ allocObjs[b].Pool = Nil
    /\ allocations = {}
    /\ totalAllocated = 0

\* C28: Pool.GetStats reports TotalSize = arena size, UsedSize = sum of the
\* used block sizes, FreeSize = sum of the free block sizes and BlockCount =
\* number of used blocks plus number of free blocks, in every state of the pool.
C28_PoolStatsExact ==
    last.op = "PoolGetStats" =>
        LET mp == poolObjs[last.pool]
        IN /\ last.poolStats.TotalSize = mp.Size
           /\ last.poolStats.UsedSize = SumBlocks(mp.UsedBlocks)
           /\ last.poolStats.FreeSize = SumBlocks(mp.FreeBlocks)
           /\ last.poolStats.BlockCount = Len(mp.UsedBlocks) + Len(mp.FreeBlocks)

\* the span a live allocation was handed: [offset, offset + size)
Span(a) == {x \in 0..(Modulus - 1) : offsetOf[a] <= x /\ x < offsetOf[a] + allocObjs[a].Size}

\* C29: any two distinct live allocations carved from the same pool were
\* handed disjoint spans [offset, offset + size).
C29_LiveSpansDisjoint ==
    \A a, b \in allocations :
        (a # b /\ allocObjs[a].Pool # Nil /\ allocObjs[a].Pool = allocObjs[b].Pool) =>
            Span(a) \cap Span(b) = {}

\* how often span sp occurs in `after` beyond its occurrences in `before`
Gain(before, after, sp) == Count(after, sp[1], sp[2]) - Count(before, sp[1], sp[2])

\* C30: a successful Pool.Allocate serves the request from the first block in
\* freeBlocks list order whose size is at least the aligned size; the used
\* block is the head of that block; if the block was larger, exactly one free
\* block, its tail, takes its place, otherwise it is removed; every other free
\* and used block is unchanged.
C30_FirstFitHeadSplit ==
    [][(last'.op = "Allocate" /\ last'.err = OK /\ last'.pool \in PoolIds) =>
          LET mp == poolObjs[last'.pool]
              after == poolObjs'[last'.pool]
              alignedSize == allocObjs'[last'.id].Size
              offset == offsetOf'[last'.id]
              fits == {i \in 1..Len(mp.FreeBlocks) : mp.FreeBlocks[i].Size >= alignedSize}
          IN \E i \in fits :
                 LET block == mp.FreeBlocks[i]
                     head == <<block.Offset, alignedSize>>
                     tail == <<block.Offset + alignedSize, block.Size - alignedSize>>
                     whole == <<block.Offset, block.Size>>
                 IN /\ \A j \in fits : i <= j
                    /\ offset = block.Offset
                    /\ Len(after.UsedBlocks) = Len(mp.UsedBlocks) + 1
                    /\ \A sp \in Spans(mp.UsedBlocks) \cup Spans(after.UsedBlocks) :
                           Gain(mp.UsedBlocks, after.UsedBlocks, sp) =
                               IF sp = head THEN 1 ELSE 0
                    /\ Len(after.FreeBlocks) =
                           Len(mp.FreeBlocks) - (IF block.Size > alignedSize THEN 0 ELSE 1)
                    /\ \A sp \in Spans(mp.FreeBlocks) \cup Spans(after.FreeBlocks) :
                           Gain(mp.FreeBlocks, after.FreeBlocks, sp) =
                               (IF sp = tail /\ block.Size > alignedSize THEN 1 ELSE 0)
                               - (IF sp = whole THEN 1 ELSE 0)]_vars

\* the first free block was too small and passed over: the request was carved
\* from a later block, which fitted exactly and was removed
C30_Witness ==
    /\ last.op = "Allocate"
    /\ last.err = OK
    /\ last.path = "existing"
    /\ last.skipped > 0
    /\ allocObjs[last.id].Size > 0
    /\ \A k \in 1..Len(poolObjs[last.pool].FreeBlocks) :
           poolObjs[last.pool].FreeBlocks[k].Offset # offsetOf[last.id] + allocObjs[last.id].Size


\* ------------------------------------------------------- concurrent callers
\* the pool locks thread t holds
HeldPools(t) == {held[1] : held \in {h \in poolLocks : h[2] = t}}

\* thread t acquires the allocator lock, as writer or as reader, in this step
TakesAllocatorLock(t) ==
    \/ mutex'.writer = t /\ mutex.writer # t
    \/ t \in mutex'.readers \ mutex.readers

\* C25: a thread that runs Allocate, Free, GetStats or Destroy never takes the
\* allocator lock while it holds a pool lock, and never holds the locks of two
\* different pools at once
C25_LockOrder ==
    /\ [](\A t \in Threads : Cardinality(HeldPools(t)) <= 1)
    /\ [][\A t \in Threads : TakesAllocatorLock(t) => HeldPools(t) = {}]_vars

\* a thread holds the lock of the second pool of ma.pools inside the allocator
\* lock, as GetStats and Destroy do after they left the first pool
C25_Witness ==
    \E t \in Threads :
        /\ Len(pools) = 2
        /\ HeldPools(t) = {pools[2]}
        /\ threads[t].pc \in {"G_stat", "D_destroy"}


\* the allocations the threads obtained from Allocate and did not pass to a
\* Free that returned
Outstanding == UNION {threads[t].own : t \in Threads}

\* nobody holds the allocator lock
LockFree == mutex.writer = Nil /\ mutex.readers = {}

\* no Destroy has run or is running
NotTornDown == ~allocationsNil /\ \A t \in Threads : threads[t].op # "Destroy"

\* C24: while threads run Allocate and Free on their own allocations, whenever
\* the allocator lock is free the table holds exactly the allocations obtained
\* and not yet freed, and totalAllocated is the sum of their sizes
C24_BookkeepingThreadSafe ==
    (LockFree /\ NotTornDown) =>
        /\ allocations = Outstanding
        /\ totalAllocated = SumSizes(Outstanding) % Modulus

\* the lock is free after two threads were inside Allocate or Free, one of
\* them having waited for the other, and each obtained an allocation
C24_Witness ==
    /\ LockFree /\ NotTornDown
    /\ \E t, u \in Threads : t # u /\ threads[t].own # {} /\ threads[u].own # {}
    /\ Cardinality(allocations) = 2


\* thread t has gathered the statistics GetStats is about to return
StatsReady(t) == threads[t].pc = "G_done"

\* C27: the totalAllocated, allocationCount and poolCount that GetStats returns
\* are those of the allocator state at the return, in which totalAllocated is
\* the sum of the sizes of the allocationCount allocations of the table
C27_StatsSnapshot ==
    \A t \in Threads :
        StatsReady(t) =>
            LET stats == threads[t].stats
            IN /\ stats.TotalAllocated = totalAllocated
               /\ stats.AllocationCount = Cardinality(allocations)
               /\ stats.PoolCount = Len(pools)
               /\ stats.TotalAllocated = SumSizes(allocations) % Modulus

\* GetStats is about to return the statistics of an allocator with two live
\* allocations, one of them carved from a pool, that other threads obtained
C27_Witness ==
    \E t \in Threads :
        /\ StatsReady(t)
        /\ threads[t].stats.AllocationCount = 2
        /\ threads[t].stats.PoolCount >= 1
        /\ threads[t].stats.TotalAllocated > 0
        /\ \E u \in Threads \ {t} : threads[u].own # {}


\* thread t is inside a call of Allocate, Free, GetStats or Destroy
InCall(t) == threads[t].pc # "idle"

\* C26: under fair scheduling every call of Allocate, Free, GetStats and
\* Destroy that a thread has entered eventually returns
C26_EveryCallReturns == \A t \in Threads : InCall(t) ~> ~InCall(t)


\* C26, apart from the panic: every call returns unless a thread panicked
C26_ReturnsUnlessPanic == \A t \in Threads : InCall(t) ~> (~InCall(t) \/ ~NoPanic)

\* C26, apart from the panic: some thread can take a step in every state
C26_NeverAllBlocked == NoPanic => \E t \in Threads : ENABLED ThreadStep(t)


\* ------------------------------------------------------- pool failures
\* the sizes of the free blocks of a pool add up to this
FreeTotal(mp) == SumBlocks(mp.FreeBlocks)

\* C31: Pool.Allocate fails with the out-of-space error exactly when no single
\* free block is as large as the aligned size, and a failing call leaves the
\* free and used block lists as they were
C31_PoolAllocateFailure ==
    [][last'.op = "PoolAllocate" =>
          LET mp == poolObjs[last'.pool]
              alignedSize == AlignedSize(last'.size, mp.BlockSize)
              noneFits == \A i \in 1..Len(mp.FreeBlocks) : mp.FreeBlocks[i].Size < alignedSize
          IN /\ last'.err \in {OK, ErrInsufficientSpace}
             /\ (last'.err = ErrInsufficientSpace) <=> noneFits
             /\ last'.err # OK => poolObjs' = poolObjs]_vars

\* a direct pool call failed although the free blocks together would have
\* sufficed
C31_Witness ==
    /\ last.op = "PoolAllocate"
    /\ last.err = ErrInsufficientSpace
    /\ Len(poolObjs[last.pool].FreeBlocks) >= 2
    /\ FreeTotal(poolObjs[last.pool]) >= AlignedSize(last.size, poolObjs[last.pool].BlockSize)


\* ------------------------------------------------------- routing
\* the explicit pool of the call that just returned can serve its request
ExplicitServes ==
    PoolAllocate(last'.epool, poolObjs[last'.epool], last'.size).err = OK

\* the explicit pool served the call that just returned: the block is carved
\* from it and the allocation is in the table
ServedByExplicit ==
    /\ last'.err = OK
    /\ last'.path = "explicit"
    /\ last'.pool = last'.epool
    /\ poolObjs'[last'.epool] =
           PoolAllocate(last'.epool, poolObjs[last'.epool], last'.size).pool
    /\ allocObjs'[last'.id].Pool = last'.epool
    /\ last'.id \in allocations' \ allocations

\* the call that just returned went on to type resolution and the ordinary
\* routing: it does not fail with the pool's error, and the explicit pool is
\* as it was
FellThrough ==
    /\ last'.path # "explicit"
    /\ last'.err \in {OK, ErrNoSuitableMemoryType}
    /\ last'.err = OK => last'.id \in allocations' \ allocations
    /\ poolObjs'[last'.epool] = poolObjs[last'.epool]

\* C32: an Allocate that names a pool is served by that pool when the pool
\* can serve the request, and otherwise goes on with the ordinary routing
C32_ExplicitPoolHint ==
    [][(last'.op = "Allocate" /\ last'.epool # Nil) =>
          IF ExplicitServes THEN ServedByExplicit ELSE FellThrough]_vars

\* C32 amended: the same below the allocation cap; at the cap the call fails
\* before the explicit pool is tried
C32_ExplicitPoolHintBelowCap ==
    [][(last'.op = "Allocate" /\ last'.epool # Nil) =>
          IF CapReached(Cardinality(allocations))
          THEN last'.err = ErrTooManyAllocations /\ poolObjs' = poolObjs
          ELSE IF ExplicitServes THEN ServedByExplicit ELSE FellThrough]_vars

\* the explicit pool could not serve the call and the allocation came from
\* elsewhere
C32_Witness ==
    /\ last.op = "Allocate"
    /\ last.epool # Nil
    /\ last.err = OK
    /\ last.path # "explicit"
    /\ last.pool # last.epool


\* pool mp has a free block that holds `size` once it is aligned
HasBlockFor(mp, size) ==
    \E i \in 1..Len(mp.FreeBlocks) :
        mp.FreeBlocks[i].Size >= AlignedSize(size, mp.BlockSize)

\* positions in ma.pools, before the call that just returned, of the pools of
\* the type it resolved that had such a block
ServingBefore ==
    {k \in 1..Len(pools) :
        /\ poolObjs[pools[k]].TypeIndex = last'.tix
        /\ HasBlockFor(poolObjs[pools[k]], last'.size)}

\* C33: an Allocate without explicit pool that resolved a type is served by
\* the first pool in list order of that type with a large enough free block,
\* when there is one, and then no pool is created; pools of another type are
\* never touched
C33_FirstFitAcrossPools ==
    [][(last'.op = "Allocate" /\ last'.epool = Nil /\ last'.tix # -1) =>
          /\ \A q \in PoolIds :
                 poolObjs[q].TypeIndex # last'.tix => poolObjs'[q] = poolObjs[q]
          /\ ServingBefore # {} =>
                 /\ last'.err = OK
                 /\ last'.pool = pools[Lowest(ServingBefore)]
                 /\ pools' = pools
                 /\ Len(poolObjs') = Len(poolObjs)
                 /\ \A q \in PoolIds \ {last'.pool} : poolObjs'[q] = poolObjs[q]]_vars

\* a later pool of a type served although an earlier one of that type exists,
\* because the earlier one had no block large enough
C33_Witness ==
    /\ last.op = "Allocate" /\ last.epool = Nil /\ last.err = OK
    /\ last.path = "existing"
    /\ \E k \in 2..Len(pools) :
           /\ pools[k] = last.pool
           /\ \E j \in 1..(k - 1) : poolObjs[pools[j]].TypeIndex = last.tix


\* the step changed the pool list or created a pool object
PoolListChanged == pools' # pools \/ Len(poolObjs') # Len(poolObjs)

C35_FreeUnmaps ==
    [][(/\ last'.op = "Free"
        /\ last'.err = OK
        /\ IsMapped(allocObjs[last'.id])) => allocObjs'[last'.id].Mapped = Nil]_vars

\* a mapped allocation was freed with success
C35_Witness ==
    /\ last.op = "Free"
    /\ last.err = OK
    /\ last.wasMapped
    /\ allocObjs[last.id].Mapped = Nil
    /\ last.id \notin allocations


\* C38: a Free that returns an error leaves the table, totalAllocated, the
\* block lists of every pool and the mapped pointer of its argument as they
\* were
C38_FailedFreeNoEffect ==
    [][(last'.op = "Free" /\ last'.err # OK) =>
          /\ UNCHANGED <<allocations, totalAllocated, poolObjs>>
          /\ last'.id # Nil => allocObjs'[last'.id].Mapped = allocObjs[last'.id].Mapped]_vars


\* C37: an Allocate that returns an error leaves the table, totalAllocated,
\* the pool list and the block lists of every pool as they were
C37_FailedAllocateNoEffect ==
    [][(last'.op = "Allocate" /\ last'.err # OK) =>
          UNCHANGED <<allocations, totalAllocated, pools, poolObjs, allocObjs>>]_vars

\* an Allocate failed for want of a suitable memory type on an allocator that
\* has a pool and a live allocation
C37_Witness ==
    /\ last.op = "Allocate"
    /\ last.err = ErrNoSuitableMemoryType
    /\ pools # <<>>
    /\ allocations # {}


\* ------------------------------------------------------- allocation fields
\* bit i of requirements.MemoryTypeBits is set
TypeAllowed(typeBits, i) == (typeBits \div Pow2(i)) % 2 = 1

\* C39: an allocation returned by Allocate without explicit pool has a type
\* index whose bit is set in MemoryTypeBits and whose device flags include
\* the required flags, and carries those device flags in Properties; the two
\* fields never change afterwards
C39_TypeAndPropertiesFixed ==
    /\ []((/\ last.op = "Allocate"
           /\ last.request.recorded
           /\ last.epool = Nil
           /\ last.err = OK) =>
             LET alloc == allocObjs[last.id]
                 required == BitOr(last.request.required, UsageRequired(last.request.usage))
             IN /\ TypeAllowed(last.request.typeBits, alloc.TypeIndex)
                /\ BitAnd(TypeFlags(alloc.TypeIndex), required) = required
                /\ alloc.Properties = TypeFlags(alloc.TypeIndex))
    /\ [][\A a \in AllocIds :
              /\ allocObjs'[a].TypeIndex = allocObjs[a].TypeIndex
              /\ allocObjs'[a].Properties = allocObjs[a].Properties]_vars

\* an allocation of a type other than the lowest allowed one, chosen for its
\* flags, was mapped and freed and still carries the type's flags
C39_Witness ==
    /\ last.op = "Free"
    /\ last.wasMapped
    /\ allocObjs[last.id].TypeIndex # 0
    /\ allocObjs[last.id].Properties = TypeFlags(allocObjs[last.id].TypeIndex)
    /\ allocObjs[last.id].Mapped = Nil

\* ------------------------------------------------------ one pool, two callers
\* allocations a and b were carved from the same pool
SamePool(a, b) == allocObjs[a].Pool # Nil /\ allocObjs[a].Pool = allocObjs[b].Pool

\* the byte ranges [o1, o1 + s1) and [o2, o2 + s2) share no byte
Apart(o1, s1, o2, s2) == s1 = 0 \/ s2 = 0 \/ o1 + s1 <= o2 \/ o2 + s2 <= o1

\* C36: Pool.Allocate calls on one pool, through the allocator or directly,
\* are serialized by the pool lock: at most one call is inside a pool at a
\* time, no two allocations were carved from the same bytes of a pool, and
\* the used blocks of a pool are pairwise disjoint, one per allocation.
C36_PoolAllocateSerialized ==
    /\ \A g, h \in poolLocks : g[1] = h[1] => g = h
    /\ \A a, b \in AllocIds :
          (a # b /\ SamePool(a, b)) =>
              Apart(offsetOf[a], allocObjs[a].Size, offsetOf[b], allocObjs[b].Size)
    /\ \A p \in PoolIds :
          LET used == poolObjs[p].UsedBlocks
          IN /\ \A i, j \in 1..Len(used) :
                    i # j => Apart(used[i].Offset, used[i].Size, used[j].Offset, used[j].Size)
             /\ Len(used) = Cardinality({a \in AllocIds : allocObjs[a].Pool = p})

\* two threads each hold an allocation carved from the same pool: one through
\* ma.Allocate, the other by a direct pool.Allocate
C36_Witness ==
    \E t, u \in Threads : \E a \in threads[t].own, b \in threads[u].own :
        /\ t # u
        /\ SamePool(a, b)
        /\ a \in allocations
        /\ b \notin allocations

\* ------------------------------------------------------------------ retrying
\* the calls of fn so far that neither succeeded nor lost the device
Retried(k) == \A j \in 1..k : retry.calls[j] \notin {"nil", "ERROR_DEVICE_LOST"}

\* Retry's contract when fn may be called at most `most` times
RetryContract(most) ==
    LET n == Len(retry.calls)
    IN /\ Retried(n - 1)
       /\ retry.pc = "loop" => Retried(n)
       /\ retry.pc = "returned" =>
             /\ n <= most
             /\ \/ n > 0 /\ retry.calls[n] = "nil" /\ retry.ret = ReturnNil
                \/ n > 0 /\ retry.calls[n] = "ERROR_DEVICE_LOST"
                         /\ retry.ret = ReturnErr("ERROR_DEVICE_LOST")
                \/ /\ n = most
                   /\ Retried(n)
                   /\ retry.ret = ReturnWrapped(retry.attempts,
                                                IF n = 0 THEN "nil" ELSE retry.calls[n])

\* C40 as stated: Retry calls fn at most `attempts` times, one after another;
\* it returns nil at the first call that succeeds, returns the error unchanged
\* at the first call failing with ERROR_DEVICE_LOST, and otherwise returns an
\* error wrapping the last failure after exactly `attempts` failed calls.
C40_Retry == RetryContract(retry.attempts)

\* C40, amended: the same with `attempts` counted as 0 when it is negative;
\* when fn was never called the returned error wraps the nil lastErr.
C40_RetryCounted == RetryContract(IF retry.attempts < 0 THEN 0 ELSE retry.attempts)

\* Retry returned the wrapping error after two or more failed calls that
\* included a memory error, and the last failure is the one wrapped
C40_Witness ==
    /\ retry.pc = "returned"
    /\ retry.attempts >= 2
    /\ Len(retry.calls) = retry.attempts
    /\ retry.calls[1] = "ERROR_OUT_OF_DEVICE_MEMORY"
    /\ retry.ret = ReturnWrapped(retry.attempts, "other")

====
